---- MODULE Spec2Model ----
(***************************************************************************)
(* Model of the sampling and cost-modelling engine of the Lambda cost and  *)
(* performance study:                                                      *)
(*   - LambdaTestExecutor.testFunction, the adaptive batching loop that    *)
(*     collects cold-start and warm-start samples for one memory tier      *)
(*     (scripts/lambda-test-executor.ts);                                  *)
(*   - CostAnalyzer, AnalysisCoordinator and PerformanceInsightsAnalyzer,  *)
(*     the pure analysis stages (scripts/analysis/*.ts).                   *)
(*                                                                         *)
(* Spec is the collector: one run of testFunction against an endpoint      *)
(* whose answers are chosen nondeterministically.                          *)
(***************************************************************************)
EXTENDS Integers, Sequences, FiniteSets, TLC

VARIABLES
    \* ---- LambdaTestConfig of the run (lambda-test-executor.ts:65) ----
    targetColdStarts,       \* config.targetColdStarts
    targetWarmStarts,       \* config.targetWarmStarts
    maxConcurrentRequests,  \* config.maxConcurrentRequests
    maxRequests,            \* config.maxRequests
    \* ---- locals of testFunction (lambda-test-executor.ts:68-71) ----
    coldStartResults,       \* TestRequestResult[]
    warmStartResults,       \* TestRequestResult[]
    totalRequestsAttempted,
    batchNumber,
    \* ---- the batch in flight ----
    requests,               \* the promises of makeConcurrentRequests, by index
    responses,              \* what makeConcurrentRequests returned to the loop
    pc,                     \* position of the async function testFunction
    \* ---- observations of the run ----
    exitReason,             \* which exit of the while loop was taken
    batchPath,              \* which path handled the batch returned last
    result,                 \* the FunctionTestResult returned (NULL before)
    \* ---- the analysis stages ----
    testResults,            \* TestResults: basicFunctions, computationFunctions
    optimalConfig,          \* what findOptimalMemoryConfig(basicFunctions) returned
    costAnalysisOutput,     \* what analyzeCostEfficiency(basicFunctions) returned
    summaryOutput,          \* what generateSummaryAnalysis(testResults) returned
    useCaseOutput,          \* what determineBestUseCase returned, and for which tier
    analysisData            \* what generateFunctionAnalysisData returned (basic family)

collectorVars ==
    << targetColdStarts, targetWarmStarts, maxConcurrentRequests, maxRequests,
       coldStartResults, warmStartResults, totalRequestsAttempted, batchNumber,
       requests, responses, pc, exitReason, batchPath, result >>

analysisVars ==
    << testResults, optimalConfig, costAnalysisOutput, summaryOutput, useCaseOutput,
       analysisData >>

vars == << collectorVars, analysisVars >>

configVars == << targetColdStarts, targetWarmStarts, maxConcurrentRequests, maxRequests >>

\* the JavaScript value null, where a record may stand as well
NULL == [isNull |-> TRUE]
\* the output of a call that has not been made
NotCalled == [notCalled |-> TRUE]

(***************************************************************************)
(* Bounds of the model.                                                    *)
(***************************************************************************)
\* largest targetColdStarts / targetWarmStarts a run is started with
MaxTarget == 2
\* largest maxConcurrentRequests a run is started with
MaxConcurrent == 3
\* largest maxRequests a run is started with
MaxRequests == 3
\* longest sample sequence handed to the statistics of lines 155-219
MaxSamples == 3
\* longest tier list handed to the analysis
MaxTiers == 2
\* longest tier list whose configurations are labelled with a use case
MaxConfigs == 3

(***************************************************************************)
(* JavaScript numbers.  The analysis computes with IEEE 754 binary64       *)
(* values, rounding every operation to nearest, ties to even.  A number is *)
(* a record: cls is "zero", "num", "inf" or "nan"; neg is the sign; a      *)
(* "num" has the value m * 2^exp, where the significand m is a natural     *)
(* number with 2^52 <= m < 2^53.  Naturals wider than TLC's integers are   *)
(* sequences of 14-bit limbs, least significant first, without leading     *)
(* zero limbs.  At the smallest exponent, -1074, m may be below 2^52 (a    *)
(* subnormal number); a result beyond the largest finite number is an      *)
(* infinity.                                                               *)
(***************************************************************************)
Base == 16384
LimbBits == 14
Precision == 53
\* the exponents of the smallest and of the largest significand
MinExp == -1074
MaxExp == 971

Pow2(k) == << 1, 2, 4, 8, 16, 32, 64, 128, 256, 512, 1024, 2048, 4096,
              8192, 16384 >>[k + 1]

Limb0(x) == IF x = << >> THEN 0 ELSE x[1]
Rest(x) == IF x = << >> THEN << >> ELSE Tail(x)

RECURSIVE BigTrim(_)
BigTrim(x) ==
    IF x = << >> THEN x
    ELSE IF x[Len(x)] = 0 THEN BigTrim(SubSeq(x, 1, Len(x) - 1)) ELSE x

RECURSIVE BigOfInt(_)
BigOfInt(k) == IF k = 0 THEN << >> ELSE << k % Base >> \o BigOfInt(k \div Base)

RECURSIVE BigAddC(_, _, _)
BigAddC(a, b, c) ==
    IF a = << >> /\ b = << >> THEN (IF c = 0 THEN << >> ELSE << c >>)
    ELSE << (Limb0(a) + Limb0(b) + c) % Base >>
         \o BigAddC(Rest(a), Rest(b), (Limb0(a) + Limb0(b) + c) \div Base)

BigAdd(a, b) == BigAddC(a, b, 0)

\* a - b - borrow, for a >= b
RECURSIVE BigSubB(_, _, _)
BigSubB(a, b, br) ==
    IF a = << >> THEN << >>
    ELSE << (a[1] - Limb0(b) - br + Base) % Base >>
         \o BigSubB(Tail(a), Rest(b), IF a[1] - Limb0(b) - br < 0 THEN 1 ELSE 0)

BigSub(a, b) == BigTrim(BigSubB(a, b, 0))

RECURSIVE BigLessAt(_, _, _)
BigLessAt(a, b, i) ==
    IF i = 0 THEN FALSE
    ELSE IF a[i] # b[i] THEN a[i] < b[i] ELSE BigLessAt(a, b, i - 1)

BigLess(a, b) ==
    IF Len(a) # Len(b) THEN Len(a) < Len(b) ELSE BigLessAt(a, b, Len(a))

RECURSIVE BigMulLimbC(_, _, _)
BigMulLimbC(a, k, c) ==
    IF a = << >> THEN (IF c = 0 THEN << >> ELSE << c >>)
    ELSE << (a[1] * k + c) % Base >>
         \o BigMulLimbC(Tail(a), k, (a[1] * k + c) \div Base)

BigMulLimb(a, k) == IF k = 0 THEN << >> ELSE BigMulLimbC(a, k, 0)

BigShiftLimb(x) == IF x = << >> THEN x ELSE << 0 >> \o x

RECURSIVE BigMul(_, _)
BigMul(a, b) ==
    IF b = << >> THEN << >>
    ELSE BigAdd(BigMulLimb(a, b[1]), BigShiftLimb(BigMul(a, Tail(b))))

\* x * 2^bits
BigShl(x, bits) ==
    IF x = << >> THEN x
    ELSE [i \in 1..(bits \div LimbBits) |-> 0]
         \o BigMulLimb(x, Pow2(bits % LimbBits))

RECURSIVE BitsOfLimb(_)
BitsOfLimb(v) == IF v = 0 THEN 0 ELSE 1 + BitsOfLimb(v \div 2)

BitLen(x) ==
    IF x = << >> THEN 0 ELSE LimbBits * (Len(x) - 1) + BitsOfLimb(x[Len(x)])

LimbAt(x, i) == IF i <= Len(x) THEN x[i] ELSE 0

\* floor(x / 2^bits)
BigShr(x, bits) ==
    BigTrim([i \in 1..(Len(x) - (bits \div LimbBits)) |->
        (LimbAt(x, i + (bits \div LimbBits)) \div Pow2(bits % LimbBits))
        + (LimbAt(x, i + 1 + (bits \div LimbBits)) % Pow2(bits % LimbBits))
          * Pow2(LimbBits - (bits % LimbBits))])

\* bit i of x (bit 0 is the lowest)
BitAt(x, i) == (LimbAt(x, (i \div LimbBits) + 1) \div Pow2(i % LimbBits)) % 2

\* some bit of x below bit n is set
AnyBitBelow(x, n) ==
    \/ \E i \in 1..(n \div LimbBits) : LimbAt(x, i) # 0
    \/ LimbAt(x, (n \div LimbBits) + 1) % Pow2(n % LimbBits) # 0

\* the digit of the quotient: the largest q <= qhat with q * d <= r
RECURSIVE DigitFix(_, _, _)
DigitFix(r, d, qhat) ==
    IF BigLess(r, BigMulLimb(d, qhat)) THEN DigitFix(r, d, qhat - 1) ELSE qhat

\* the estimate of the digit from the leading limbs (d has its top bit set)
DigitEstimate(r, d) ==
    IF Len(r) < Len(d) THEN 0
    ELSE IF Len(r) = Len(d) THEN r[Len(d)] \div d[Len(d)]
    ELSE IF (r[Len(d) + 1] * Base + r[Len(d)]) \div d[Len(d)] > Base - 1
         THEN Base - 1
         ELSE (r[Len(d) + 1] * Base + r[Len(d)]) \div d[Len(d)]

DivEmit(q, r, d, digit) ==
    [q |-> << digit >> \o q, r |-> BigSub(r, BigMulLimb(d, digit))]

DivStep(q, r, d) == DivEmit(q, r, d, DigitFix(r, d, DigitEstimate(r, d)))

\* long division of the limbs x[1..i], from the top limb down; the
\* remainder st.r stays below d
RECURSIVE BigDivRec(_, _, _, _)
BigDivRec(x, i, d, st) ==
    IF i = 0 \/ ~BigLess(st.r, d) THEN st
    ELSE BigDivRec(x, i - 1, d, DivStep(st.q, BigTrim(<< x[i] >> \o st.r), d))

\* quotient and remainder of x / d, for d with the top bit of its top limb set
BigDivMod(x, d) == BigDivRec(x, Len(x), d, [q |-> << >>, r |-> << >>])

Zero == [cls |-> "zero", neg |-> FALSE, exp |-> 0, m |-> << >>]
Infinity == [cls |-> "inf", neg |-> FALSE, exp |-> 0, m |-> << >>]
NaN == [cls |-> "nan", neg |-> FALSE, exp |-> 0, m |-> << >>]
IsNaN(a) == a.cls = "nan"
IsFinite(a) == a.cls \in {"zero", "num"}
SignedZero(neg) == [Zero EXCEPT !.neg = neg]
SignedInfinity(neg) == [Infinity EXCEPT !.neg = neg]

\* a significand m at exponent exp; beyond the largest finite number the
\* result is an infinity
Finite(neg, m, exp) ==
    IF m = << >> THEN SignedZero(neg)
    ELSE IF exp > MaxExp THEN SignedInfinity(neg)
    ELSE [cls |-> "num", neg |-> neg, exp |-> exp, m |-> m]

\* a significand that rounding carried to 2^53 is renormalised
Carried(neg, m, exp) ==
    IF BitLen(m) > Precision THEN Finite(neg, BigShr(m, 1), exp + 1)
    ELSE Finite(neg, m, exp)

\* drop the low s bits of x, rounding to nearest, ties to even
RoundShift(neg, x, exp, s) ==
    IF BitAt(x, s - 1) = 1 /\ (AnyBitBelow(x, s - 1) \/ BitAt(x, s) = 1)
    THEN Carried(neg, BigAdd(BigShr(x, s), << 1 >>), exp + s)
    ELSE Finite(neg, BigShr(x, s), exp + s)

\* the number of bits by which x * 2^exp is shifted right to have 53
\* significant bits, or fewer at the smallest exponent
ShiftFor(x, exp) ==
    IF exp + BitLen(x) - Precision < MinExp THEN MinExp - exp
    ELSE BitLen(x) - Precision

RoundBy(neg, x, exp, s) ==
    IF s <= 0 THEN Finite(neg, BigShl(x, -s), exp + s)
    ELSE RoundShift(neg, x, exp, s)

\* the number nearest to x * 2^exp, x a natural
Round(neg, x, exp) ==
    IF x = << >> THEN SignedZero(neg) ELSE RoundBy(neg, x, exp, ShiftFor(x, exp))

\* the number of an integer
Number(k) == Round(k < 0, BigOfInt(IF k < 0 THEN -k ELSE k), 0)


\* a * b
NumMul(a, b) ==
    IF IsNaN(a) \/ IsNaN(b) THEN NaN
    ELSE IF a.cls = "inf" \/ b.cls = "inf"
    THEN (IF a.cls = "zero" \/ b.cls = "zero" THEN NaN
          ELSE SignedInfinity(a.neg # b.neg))
    ELSE IF a.cls = "zero" \/ b.cls = "zero" THEN SignedZero(a.neg # b.neg)
    ELSE Round(a.neg # b.neg, BigMul(a.m, b.m), a.exp + b.exp)

\* the shift that sets the top bit of the top limb of the divisor
DivisorShift(d) == LimbBits - BitsOfLimb(d[Len(d)])

\* the shift of the dividend that leaves a quotient of at least 55 bits
DividendShift(x, d) == BitLen(d) + DivisorShift(d) + 56 - BitLen(x)

\* the quotient of two significands with a sticky bit appended
QuotientBits(qr) == BigAdd(BigShl(BigTrim(qr.q), 1), IF qr.r = << >> THEN << >> ELSE << 1 >>)

\* a / b  (x/0 is Infinity or -Infinity, 0/0 is NaN)
NumDiv(a, b) ==
    IF IsNaN(a) \/ IsNaN(b) THEN NaN
    ELSE IF a.cls = "inf"
    THEN (IF b.cls = "inf" THEN NaN ELSE SignedInfinity(a.neg # b.neg))
    ELSE IF b.cls = "inf" THEN SignedZero(a.neg # b.neg)
    ELSE IF b.cls = "zero"
    THEN (IF a.cls = "zero" THEN NaN ELSE SignedInfinity(a.neg # b.neg))
    ELSE IF a.cls = "zero" THEN SignedZero(a.neg # b.neg)
    ELSE Round(a.neg # b.neg,
               QuotientBits(BigDivMod(BigShl(a.m, DividendShift(a.m, b.m)),
                                      BigShl(b.m, DivisorShift(b.m)))),
               a.exp - b.exp - DividendShift(a.m, b.m) + DivisorShift(b.m) - 1)

\* |a| + |b| or |a| - |b| of two "num" values with a.exp >= b.exp
AddAligned(a, b, x) ==
    IF a.neg = b.neg THEN Round(a.neg, BigAdd(x, b.m), b.exp)
    ELSE IF x = b.m THEN Zero
    ELSE IF BigLess(x, b.m) THEN Round(b.neg, BigSub(b.m, x), b.exp)
    ELSE Round(a.neg, BigSub(x, b.m), b.exp)

AddOrdered(a, b) ==
    IF a.exp - b.exp > 60 THEN a
    ELSE AddAligned(a, b, BigShl(a.m, a.exp - b.exp))

\* a + b
NumAdd(a, b) ==
    IF IsNaN(a) \/ IsNaN(b) THEN NaN
    ELSE IF a.cls = "inf"
    THEN (IF b.cls = "inf" /\ a.neg # b.neg THEN NaN ELSE a)
    ELSE IF b.cls = "inf" THEN b
    ELSE IF a.cls = "zero"
    THEN (IF b.cls = "zero" THEN SignedZero(a.neg /\ b.neg) ELSE b)
    ELSE IF b.cls = "zero" THEN a
    ELSE IF a.exp >= b.exp THEN AddOrdered(a, b) ELSE AddOrdered(b, a)

\* a - b
NumSub(a, b) ==
    NumAdd(a, IF IsNaN(b) THEN b ELSE [b EXCEPT !.neg = ~b.neg])

\* |a| < |b| of two values that are "num" or "inf"
MagnitudeLess(a, b) ==
    IF a.cls = "inf" THEN FALSE
    ELSE IF b.cls = "inf" THEN TRUE
    ELSE IF a.exp # b.exp THEN a.exp < b.exp
    ELSE BigLess(a.m, b.m)

\* a < b  (false when either is NaN; -0 and 0 are equal)
NumLess(a, b) ==
    IF IsNaN(a) \/ IsNaN(b) THEN FALSE
    ELSE IF a.cls = "zero" THEN b.cls # "zero" /\ ~b.neg
    ELSE IF b.cls = "zero" THEN a.neg
    ELSE IF a.neg # b.neg THEN a.neg
    ELSE IF a.neg THEN MagnitudeLess(b, a)
    ELSE MagnitudeLess(a, b)

NumGreater(a, b) == NumLess(b, a)

\* the decimal literal n / 10^k, k <= 22: the number nearest to its value
RECURSIVE PowerOfTen(_)
PowerOfTen(k) == IF k = 0 THEN << 1 >> ELSE BigMulLimb(PowerOfTen(k - 1), 10)

Decimal(n, k) == NumDiv(Number(n), Round(FALSE, PowerOfTen(k), 0))

\* totalExecutionTime values the endpoint reports to the collector (ms)
Durations == {Number(0), Number(10)}

(***************************************************************************)
(* Endpoint answers.  A request either rejects (network error, timeout,    *)
(* body that is not JSON) or resolves with the parsed body:                *)
(*   "null"      the body is the JSON value null;                          *)
(*   "malformed" an object lacking performance or executionEnvironment;    *)
(*   "ok"        an object with both, carrying coldStart and               *)
(*               totalExecutionTime.                                       *)
(***************************************************************************)
NullResponse == [tag |-> "null", coldStart |-> FALSE, duration |-> Zero]
MalformedResponse == [tag |-> "malformed", coldStart |-> FALSE, duration |-> Zero]

LambdaFunctionResponse ==
    {NullResponse, MalformedResponse} \cup
    [tag : {"ok"}, coldStart : BOOLEAN, duration : Durations]

Rejected == [status |-> "rejected", value |-> NullResponse]
Fulfilled(v) == [status |-> "fulfilled", value |-> v]

\* makeRequest: the ways one pending request can settle
makeRequest == {Rejected} \cup {Fulfilled(v) : v \in LambdaFunctionResponse}

(***************************************************************************)
(* Helpers on sequences.                                                   *)
(***************************************************************************)
\* s.reduce((sum, d) => sum + d, sum): the additions are made from the left
RECURSIVE SumOf(_, _)
SumOf(sum, s) == IF s = << >> THEN sum ELSE SumOf(NumAdd(sum, Head(s)), Tail(s))

\* Math.min(...s): NaN if some argument is NaN, Infinity without arguments;
\* -0 is ordered below 0
RECURSIVE MinOf(_)
MinOf(s) ==
    IF s = << >> THEN Infinity
    ELSE LET m == MinOf(Tail(s))
         IN  IF IsNaN(s[1]) \/ IsNaN(m) THEN NaN
             ELSE IF NumLess(s[1], m) THEN s[1]
             ELSE IF NumLess(m, s[1]) THEN m
             ELSE IF s[1].neg THEN s[1] ELSE m

\* Math.max(...s): NaN if some argument is NaN, -Infinity without arguments;
\* 0 is ordered above -0
RECURSIVE MaxOf(_)
MaxOf(s) ==
    IF s = << >> THEN SignedInfinity(TRUE)
    ELSE LET m == MaxOf(Tail(s))
         IN  IF IsNaN(s[1]) \/ IsNaN(m) THEN NaN
             ELSE IF NumGreater(s[1], m) THEN s[1]
             ELSE IF NumGreater(m, s[1]) THEN m
             ELSE IF s[1].neg THEN m ELSE s[1]

durationsOf(rs) == [i \in 1..Len(rs) |-> rs[i].duration]

(***************************************************************************)
(* makeConcurrentRequests (lambda-test-executor.ts:39-58)                  *)
(***************************************************************************)
\* Array(count).fill(null).map(() => this.makeRequest(url))
fireRequests(count) ==
    [i \in 1..count |-> [status |-> "pending", value |-> NullResponse]]

\* what Promise.all resolves with: every value, in request order
promiseAllValues(reqs) == [i \in 1..Len(reqs) |-> reqs[i].value]

\* results.filter(status === 'fulfilled').map(result => result.value)
RECURSIVE fulfilledValues(_)
fulfilledValues(reqs) ==
    IF reqs = << >> THEN << >>
    ELSE IF Head(reqs).status = "fulfilled"
         THEN << Head(reqs).value >> \o fulfilledValues(Tail(reqs))
         ELSE fulfilledValues(Tail(reqs))

anyPending(reqs) == \E i \in 1..Len(reqs) : reqs[i].status = "pending"
anyRejected(reqs) == \E i \in 1..Len(reqs) : reqs[i].status = "rejected"
allFulfilled(reqs) == \A i \in 1..Len(reqs) : reqs[i].status = "fulfilled"

\* (variant: the catch block returns what has settled so far)
allSettledReadyEarly(reqs) == anyRejected(reqs)

\* Promise.allSettled(requests) resolves once no request is pending
allSettledReady(reqs) == ~anyPending(reqs)

(***************************************************************************)
(* testFunction: processing of one batch (lambda-test-executor.ts:96-125)  *)
(***************************************************************************)
\* the TestRequestResult built from a valid response (lines 100-107);
\* requestNumber, memoryMB, requestId and timestamp only label the sample
TestRequestResult(response) ==
    [duration |-> response.duration, isColdStart |-> response.coldStart]

\* (variant: any object passes the field check)
hasExpectedFieldsLax(response) == response.tag \in {"ok", "malformed"}

\* response.performance && response.executionEnvironment (line 97)
hasExpectedFields(response) == response.tag = "ok"

\* (variant: samples are appended without comparing with the targets)
processResponseUnbounded(acc, response) ==
    IF hasExpectedFields(response)
    THEN IF response.coldStart
         THEN [acc EXCEPT !.cold = Append(@, TestRequestResult(response))]
         ELSE [acc EXCEPT !.warm = Append(@, TestRequestResult(response))]
    ELSE acc

\* (variant: a sample arriving at a full sequence replaces its last sample)
processResponseLatest(acc, response) ==
    IF hasExpectedFields(response)
    THEN LET isColdStart == response.coldStart
             sample == TestRequestResult(response)
         IN  IF isColdStart
             THEN IF Len(acc.cold) < targetColdStarts
                  THEN [acc EXCEPT !.cold = Append(@, sample)]
                  ELSE IF Len(acc.cold) > 0
                  THEN [acc EXCEPT !.cold[Len(acc.cold)] = sample]
                  ELSE acc
             ELSE IF Len(acc.warm) < targetWarmStarts
                  THEN [acc EXCEPT !.warm = Append(@, sample)]
                  ELSE IF Len(acc.warm) > 0
                  THEN [acc EXCEPT !.warm[Len(acc.warm)] = sample]
                  ELSE acc
    ELSE acc

\* the body of the forEach callback for a response that is not null
processResponse(acc, response) ==
    IF hasExpectedFields(response)
    THEN LET isColdStart == response.coldStart
             sample == TestRequestResult(response)
         IN  IF isColdStart /\ Len(acc.cold) < targetColdStarts
             THEN [acc EXCEPT !.cold = Append(@, sample)]
             ELSE IF ~isColdStart /\ Len(acc.warm) < targetWarmStarts
             THEN [acc EXCEPT !.warm = Append(@, sample)]
             ELSE acc                       \* discarded - have enough
    ELSE acc                                \* "Error response", not sampled

\* responses.forEach(...): reading .performance of null throws a TypeError,
\* which ends the forEach and leaves the remaining responses unprocessed
RECURSIVE forEachResponse(_, _)
forEachResponse(acc, rs) ==
    IF rs = << >> THEN acc
    ELSE IF Head(rs).tag = "null"
         THEN [acc EXCEPT !.thrown = TRUE]
         ELSE forEachResponse(processResponse(acc, Head(rs)), Tail(rs))

processResponses(cold, warm, rs) ==
    forEachResponse([cold |-> cold, warm |-> warm, thrown |-> FALSE], rs)

\* the loop condition (lines 82-85)
loopCondition(cold, warm) ==
    Len(cold) < targetColdStarts \/ Len(warm) < targetWarmStarts

\* "Check if we have enough of both types" (lines 130-133)
haveEnough(cold, warm) ==
    Len(cold) >= targetColdStarts /\ Len(warm) >= targetWarmStarts

\* "Wait between batches to allow containers to scale down" (line 138)
needsScalingDelay(cold) == Len(cold) < targetColdStarts

\* (variant: the ceiling is compared with >=)
ceilingReached(attempted) == attempted >= maxRequests

\* "Safety break to prevent infinite loops" (line 145)
ceilingExceeded(attempted) == attempted > maxRequests

\* The counter of line 70 has no upper limit in the code: every batch whose
\* processing throws adds to it and returns to the loop head.  The code reads
\* it in the comparison of line 145 and prints it (lines 146, 160); nothing
\* else depends on it.  The model holds the count itself up to MaxAttempts,
\* which is above maxRequests + maxConcurrentRequests of every run, and
\* holds Beyond for every larger count: the comparison of line 145 is true
\* for each of them, so each step of the code has its step here.
MaxAttempts == 2 * (MaxRequests + MaxConcurrent)
Beyond == MaxAttempts + 1

\* totalRequestsAttempted += config.maxConcurrentRequests (line 93)
addAttempts(attempted, count) ==
    IF attempted + count > MaxAttempts THEN Beyond ELSE attempted + count

(***************************************************************************)
(* testFunction: the statistics returned (lambda-test-executor.ts:192-219) *)
(***************************************************************************)
\* results.reduce((sum, r) => sum + r.duration, 0) / results.length
\* (lines 197-198, 208-209)
averageOf(durations) == NumDiv(SumOf(Zero, durations), Number(Len(durations)))

\* (variant: an empty sequence yields a zero-valued Stats object)
TestExecutionResultZero(samples) ==
    IF Len(samples) > 0
    THEN [count   |-> Len(samples),
          average |-> averageOf(durationsOf(samples)),
          min     |-> MinOf(durationsOf(samples)),
          max     |-> MaxOf(durationsOf(samples))]
    ELSE [count |-> 0, average |-> Zero, min |-> Zero, max |-> Zero]

TestExecutionResult(samples) ==
    IF Len(samples) > 0
    THEN [count   |-> Len(samples),
          average |-> averageOf(durationsOf(samples)),
          min     |-> MinOf(durationsOf(samples)),
          max     |-> MaxOf(durationsOf(samples))]
    ELSE NULL

FunctionTestResult(cold, warm) ==
    [coldStart |-> TestExecutionResult(cold), warmStart |-> TestExecutionResult(warm)]

(***************************************************************************)
(* The collector as a state machine.                                       *)
(***************************************************************************)
\* the state at the call of testFunction, for the target counts, the batch
\* width and the ceiling a run is started with
Init ==
    /\ targetColdStarts \in {0} \cup ((MaxTarget - 1)..MaxTarget)
    /\ targetWarmStarts \in {0} \cup ((MaxTarget - 1)..MaxTarget)
    /\ maxConcurrentRequests \in {1, MaxConcurrent}
    /\ maxRequests \in {MaxRequests - 1, MaxRequests}
    /\ coldStartResults = << >>
    /\ warmStartResults = << >>
    /\ totalRequestsAttempted = 0
    /\ batchNumber = 1
    /\ requests = << >>
    /\ responses = << >>
    /\ pc = "while"
    /\ exitReason = "none"
    /\ batchPath = "none"
    /\ result = NULL
    /\ testResults = [basicFunctions |-> NULL, computationFunctions |-> NULL]
    /\ optimalConfig = NotCalled
    /\ costAnalysisOutput = NotCalled
    /\ summaryOutput = NotCalled
    /\ useCaseOutput = NotCalled
    /\ analysisData = NotCalled

\* the while condition holds: fire the next batch and await Promise.all
IssueBatch ==
    /\ pc = "while"
    /\ loopCondition(coldStartResults, warmStartResults)
    /\ requests' = fireRequests(maxConcurrentRequests)
    /\ responses' = << >>
    /\ batchPath' = "none"
    /\ pc' = "awaitAll"
    /\ UNCHANGED analysisVars
    /\ UNCHANGED << configVars, coldStartResults, warmStartResults,
                    totalRequestsAttempted, batchNumber, exitReason, result >>

\* the while condition fails: leave the loop
ExitLoop ==
    /\ pc = "while"
    /\ ~loopCondition(coldStartResults, warmStartResults)
    /\ pc' = "exited"
    /\ exitReason' = "condition"
    /\ UNCHANGED analysisVars
    /\ UNCHANGED << configVars, coldStartResults, warmStartResults,
                    totalRequestsAttempted, batchNumber, requests, responses,
                    batchPath, result >>

\* one request in flight settles (resolve or reject of makeRequest)
Settle ==
    /\ pc \in {"awaitAll", "awaitSettled"}
    /\ \E i \in 1..Len(requests) :
          /\ requests[i].status = "pending"
          /\ \E outcome \in makeRequest :
                requests' = [requests EXCEPT ![i] = outcome]
    /\ UNCHANGED analysisVars
    /\ UNCHANGED << configVars, coldStartResults, warmStartResults,
                    totalRequestsAttempted, batchNumber, responses, pc,
                    exitReason, batchPath, result >>

\* await Promise.all(requests) resolves: every request fulfilled (line 47)
PromiseAllFulfilled ==
    /\ pc = "awaitAll"
    /\ allFulfilled(requests)
    /\ responses' = promiseAllValues(requests)
    /\ pc' = "process"
    /\ UNCHANGED analysisVars
    /\ UNCHANGED << configVars, coldStartResults, warmStartResults,
                    totalRequestsAttempted, batchNumber, requests,
                    exitReason, batchPath, result >>

\* await Promise.all(requests) rejects as soon as one request has rejected;
\* the catch block then awaits Promise.allSettled(requests) (lines 48-50)
PromiseAllRejected ==
    /\ pc = "awaitAll"
    /\ anyRejected(requests)
    /\ pc' = "awaitSettled"
    /\ UNCHANGED analysisVars
    /\ UNCHANGED << configVars, coldStartResults, warmStartResults,
                    totalRequestsAttempted, batchNumber, requests, responses,
                    exitReason, batchPath, result >>

\* Promise.allSettled resolves; the fulfilled values are returned (51-56)
AllSettled ==
    /\ pc = "awaitSettled"
    /\ allSettledReady(requests)
    /\ responses' = fulfilledValues(requests)
    /\ pc' = "process"
    /\ UNCHANGED analysisVars
    /\ UNCHANGED << configVars, coldStartResults, warmStartResults,
                    totalRequestsAttempted, batchNumber, requests,
                    exitReason, batchPath, result >>

\* where the loop goes after the ceiling check of line 145
afterCeilingCheck(attempted) == IF ceilingExceeded(attempted) THEN "exited" ELSE "while"
ceilingReason(attempted) == IF ceilingExceeded(attempted) THEN "ceiling" ELSE "none"

\* the continuation of the await of line 92, up to the next await or break
\* (lines 93-148, and 149-151 when the processing throws)
ProcessBatch ==
    /\ pc = "process"
    /\ LET attempted == addAttempts(totalRequestsAttempted, maxConcurrentRequests)
           acc == processResponses(coldStartResults, warmStartResults, responses)
       IN  /\ totalRequestsAttempted' = attempted
           /\ coldStartResults' = acc.cold
           /\ warmStartResults' = acc.warm
           /\ IF acc.thrown
              THEN /\ batchPath' = "catch"
                   /\ pc' = "warmupDelay"
                   /\ UNCHANGED << batchNumber, exitReason >>
              ELSE /\ batchPath' = "normal"
                   /\ batchNumber' = batchNumber + 1
                   /\ IF haveEnough(acc.cold, acc.warm)
                      THEN pc' = "exited" /\ exitReason' = "targets"
                      ELSE IF needsScalingDelay(acc.cold)
                      THEN pc' = "requestDelay" /\ UNCHANGED exitReason
                      ELSE /\ pc' = afterCeilingCheck(attempted)
                           /\ exitReason' = ceilingReason(attempted)
    /\ UNCHANGED analysisVars
    /\ UNCHANGED << configVars, requests, responses, result >>

\* setTimeout(resolve, config.requestDelay) fires; then the ceiling check
RequestDelayElapsed ==
    /\ pc = "requestDelay"
    /\ pc' = afterCeilingCheck(totalRequestsAttempted)
    /\ exitReason' = ceilingReason(totalRequestsAttempted)
    /\ UNCHANGED analysisVars
    /\ UNCHANGED << configVars, coldStartResults, warmStartResults,
                    totalRequestsAttempted, batchNumber, requests, responses,
                    batchPath, result >>

\* setTimeout(resolve, config.warmupDelay) fires; back to the loop head
WarmupDelayElapsed ==
    /\ pc = "warmupDelay"
    /\ pc' = "while"
    /\ UNCHANGED analysisVars
    /\ UNCHANGED << configVars, coldStartResults, warmStartResults,
                    totalRequestsAttempted, batchNumber, requests, responses,
                    exitReason, batchPath, result >>

\* statistics and return (lines 155-219)
Return ==
    /\ pc = "exited"
    /\ result' = FunctionTestResult(coldStartResults, warmStartResults)
    /\ pc' = "returned"
    /\ UNCHANGED analysisVars
    /\ UNCHANGED << configVars, coldStartResults, warmStartResults,
                    totalRequestsAttempted, batchNumber, requests, responses,
                    exitReason, batchPath >>

Next ==
    \/ IssueBatch
    \/ ExitLoop
    \/ Settle
    \/ PromiseAllFulfilled
    \/ PromiseAllRejected
    \/ AllSettled
    \/ ProcessBatch
    \/ RequestDelayElapsed
    \/ WarmupDelayElapsed
    \/ Return

Spec == Init /\ [][Next]_vars

(***************************************************************************)
(* The statistics as a state machine: StatisticsSpec starts where the loop *)
(* has just exited and takes the step of lines 155-219.  The run behind    *)
(* each initial state had one batch, whose responses all were valid and    *)
(* came in the order cold, warm, and its targets were the numbers of       *)
(* samples the batch brought.                                              *)
(***************************************************************************)
\* the sample sequences of one class; their totalExecutionTime values (ms)
\* are those of Durations, 0.1 ms and 0.3 ms, which are not sums of powers
\* of two, and -0, which JSON.parse yields for the text -0
Samples(isColdStart) ==
    UNION { [1..n -> [duration : Durations \cup
                                    {Decimal(1, 1), Decimal(3, 1), SignedZero(TRUE)},
                      isColdStart : {isColdStart}]] :
            n \in 0..MaxSamples }

StatisticsInit ==
    /\ coldStartResults \in Samples(TRUE)
    /\ warmStartResults \in Samples(FALSE)
    /\ targetColdStarts = Len(coldStartResults)
    /\ targetWarmStarts = Len(warmStartResults)
    /\ responses = [i \in 1..Len(coldStartResults \o warmStartResults) |->
                        [tag |-> "ok",
                         coldStart |-> (coldStartResults \o warmStartResults)[i].isColdStart,
                         duration |-> (coldStartResults \o warmStartResults)[i].duration]]
    /\ requests = [i \in 1..Len(responses) |-> Fulfilled(responses[i])]
    /\ maxConcurrentRequests = IF responses = << >> THEN 1 ELSE Len(responses)
    /\ maxRequests = maxConcurrentRequests
    /\ totalRequestsAttempted = Len(responses)
    /\ batchNumber = IF responses = << >> THEN 1 ELSE 2
    /\ pc = "exited"
    /\ exitReason = IF responses = << >> THEN "condition" ELSE "targets"
    /\ batchPath = IF responses = << >> THEN "none" ELSE "normal"
    /\ result = NULL
    /\ testResults = [basicFunctions |-> NULL, computationFunctions |-> NULL]
    /\ optimalConfig = NotCalled
    /\ costAnalysisOutput = NotCalled
    /\ summaryOutput = NotCalled
    /\ useCaseOutput = NotCalled
    /\ analysisData = NotCalled

StatisticsSpec == StatisticsInit /\ [][Return]_vars

(***************************************************************************)
(* TestConfig of the analysis (test-runner.ts:71-83).  main() constructs    *)
(* the PerformanceTestRunner without options, so every field has its       *)
(* default.                                                                *)
(***************************************************************************)
lambdaPricePerGbSecond == Decimal(166667, 10)  \* 0.0000166667
defaultColdStartPercentage == Decimal(1, 1)    \* 0.1
costCalculationScale == Number(1000000)        \* per 1M invocations

(***************************************************************************)
(* The numeric literals of the analysis code, as numbers.                  *)
(***************************************************************************)
One == Number(1)                       \* 1 - coldPercentage
Hundred == Number(100)                 \* ... * 100 of the percentages
mbPerGb == Number(1024)                \* result.memoryMB / 1024
msPerSecond == Number(1000)            \* average / 1000
performanceScale == Number(1000)       \* 1000 / average
scoreNormalization == Number(10000)    \* costEfficiencyScore / 10000
performanceWeight == Decimal(5, 1)     \* performanceScore * 0.5
costEfficiencyWeight == Decimal(3, 1)  \* costEfficiencyScore * 0.3
coldStartWeight == Decimal(2, 1)       \* coldStartBonus * 0.2

(***************************************************************************)
(* CostAnalyzer.analyzeCostEfficiency (cost-analyzer.ts:77-129)            *)
(***************************************************************************)
\* the value thrown by Array.prototype.reduce on an empty array
Threw == [threw |-> TRUE]

\* (variant: the cold / warm mix is applied also to a tier without cold data)
CostAnalysisConfigBlended(tier) ==
    LET memoryGB == NumDiv(Number(tier.memoryMB), mbPerGb)
        warmCost ==
            NumMul(NumMul(NumMul(memoryGB,
                                 NumDiv(tier.warmStart.average, msPerSecond)),
                          lambdaPricePerGbSecond),
                   costCalculationScale)
        hasCold == tier.coldStart # NULL /\ NumGreater(tier.coldStart.average, Zero)
        coldCost ==
            IF hasCold
            THEN NumMul(NumMul(NumMul(memoryGB,
                                      NumDiv(tier.coldStart.average, msPerSecond)),
                               lambdaPricePerGbSecond),
                        costCalculationScale)
            ELSE Zero
        blended ==
            NumAdd(NumMul(coldCost, defaultColdStartPercentage),
                   NumMul(warmCost, NumSub(One, defaultColdStartPercentage)))
    IN  [memoryMB             |-> tier.memoryMB,
         avgExecutionTime     |-> tier.warmStart.average,
         coldStartTime        |-> IF tier.coldStart # NULL
                                  THEN tier.coldStart.average ELSE NULL,
         costPer1MInvocations |-> warmCost,
         coldStartCostPer1M   |-> coldCost,
         blendedCostPer1M     |-> blended,
         costEfficiencyScore  |-> NumDiv(costCalculationScale, blended)]

\* the CostAnalysisConfig pushed for a tier with warm data (lines 84-115)
CostAnalysisConfig(tier) ==
    LET memoryGB == NumDiv(Number(tier.memoryMB), mbPerGb)
        executionTimeSeconds == NumDiv(tier.warmStart.average, msPerSecond)
        warmGbSeconds == NumMul(memoryGB, executionTimeSeconds)
        warmCost == NumMul(NumMul(warmGbSeconds, lambdaPricePerGbSecond),
                           costCalculationScale)
        hasCold == tier.coldStart # NULL /\ NumGreater(tier.coldStart.average, Zero)
        coldGbSeconds ==
            NumMul(memoryGB, NumDiv(tier.coldStart.average, msPerSecond))
        coldCost ==
            IF hasCold
            THEN NumMul(NumMul(coldGbSeconds, lambdaPricePerGbSecond),
                        costCalculationScale)
            ELSE Zero
        coldPercentage == defaultColdStartPercentage
        warmPercentage == NumSub(One, coldPercentage)
        blended ==
            IF hasCold
            THEN NumAdd(NumMul(coldCost, coldPercentage),
                        NumMul(warmCost, warmPercentage))
            ELSE warmCost
    IN  [memoryMB             |-> tier.memoryMB,
         avgExecutionTime     |-> tier.warmStart.average,
         coldStartTime        |-> IF tier.coldStart # NULL
                                  THEN tier.coldStart.average ELSE NULL,
         costPer1MInvocations |-> warmCost,
         coldStartCostPer1M   |-> coldCost,
         blendedCostPer1M     |-> blended,
         costEfficiencyScore  |-> NumDiv(costCalculationScale, blended)]

\* results.forEach(result => { if (result.warmStart) costAnalysis.push(...) })
RECURSIVE costAnalysisOf(_)
costAnalysisOf(results) ==
    IF results = << >> THEN << >>
    ELSE IF Head(results).warmStart # NULL
         THEN << CostAnalysisConfig(Head(results)) >> \o costAnalysisOf(Tail(results))
         ELSE costAnalysisOf(Tail(results))

\* costAnalysis.sort((a, b) => a.memoryMB - b.memoryMB): stable, ascending
RECURSIVE insertByMemory(_, _)
insertByMemory(sorted, c) ==
    IF sorted = << >> THEN << c >>
    ELSE IF Head(sorted).memoryMB <= c.memoryMB
         THEN << Head(sorted) >> \o insertByMemory(Tail(sorted), c)
         ELSE << c >> \o sorted

\* (variant: the configurations stay in the order of the input)
sortByMemoryOmitted(cs) == cs

RECURSIVE sortByMemory(_)
sortByMemory(cs) ==
    IF cs = << >> THEN << >>
    ELSE insertByMemory(sortByMemory(SubSeq(cs, 1, Len(cs) - 1)), cs[Len(cs)])

\* (variant: a later configuration that ties the best score replaces it)
RECURSIVE reduceMostEfficientOnTies(_, _)
reduceMostEfficientOnTies(best, cs) ==
    IF cs = << >> THEN best
    ELSE reduceMostEfficientOnTies(
            IF ~NumLess(Head(cs).costEfficiencyScore, best.costEfficiencyScore)
            THEN Head(cs) ELSE best,
            Tail(cs))

\* costAnalysis.reduce((best, current) =>
\*     current.costEfficiencyScore > best.costEfficiencyScore ? current : best)
RECURSIVE reduceMostEfficient(_, _)
reduceMostEfficient(best, cs) ==
    IF cs = << >> THEN best
    ELSE reduceMostEfficient(
            IF NumGreater(Head(cs).costEfficiencyScore, best.costEfficiencyScore)
            THEN Head(cs) ELSE best,
            Tail(cs))

RECURSIVE reduceLeastEfficient(_, _)
reduceLeastEfficient(worst, cs) ==
    IF cs = << >> THEN worst
    ELSE reduceLeastEfficient(
            IF NumLess(Head(cs).costEfficiencyScore, worst.costEfficiencyScore)
            THEN Head(cs) ELSE worst,
            Tail(cs))

\* the CostAnalyzerOutput returned on lines 122-128; reduce without an initial
\* value throws on the empty array
CostAnalyzerOutput(costAnalysis) ==
    IF costAnalysis = << >>
    THEN Threw      \* TypeError: Reduce of empty array with no initial value
    ELSE [mostCostEfficient  |->
              reduceMostEfficient(Head(costAnalysis), Tail(costAnalysis)),
          leastCostEfficient |->
              reduceLeastEfficient(Head(costAnalysis), Tail(costAnalysis)),
          allConfigurations  |-> costAnalysis]

\* The two arrays a call works on: results, the array of the caller, and
\* costAnalysis, the array created on line 80.  The forEach of lines 82-117
\* reads results and pushes to costAnalysis.
pushCostAnalysis(arrays) ==
    [arrays EXCEPT !.costAnalysis = @ \o costAnalysisOf(arrays.results)]

\* (variant: line 120 sorts the array of the caller)
sortResultsInPlace(arrays) == [arrays EXCEPT !.results = sortByMemory(@)]

\* line 120: Array.prototype.sort reorders, in place, the array it is called
\* on, which is costAnalysis
sortInPlace(arrays) == [arrays EXCEPT !.costAnalysis = sortByMemory(@)]

\* the two arrays when line 122 is reached (results is not empty)
arraysOfAnalysis(results) ==
    sortInPlace(pushCostAnalysis([results |-> results, costAnalysis |-> << >>]))

analyzeCostEfficiency(results) ==
    IF Len(results) = 0 THEN NULL
    ELSE CostAnalyzerOutput(arraysOfAnalysis(results).costAnalysis)

(***************************************************************************)
(* CostAnalyzer.findOptimalMemoryConfig (cost-analyzer.ts:26-72)           *)
(***************************************************************************)
\* allConfigurations.find(c => c.memoryMB === memoryMB): first match or NULL
RECURSIVE findByMemory(_, _)
findByMemory(cs, memoryMB) ==
    IF cs = << >> THEN NULL
    ELSE IF Head(cs).memoryMB = memoryMB THEN Head(cs)
         ELSE findByMemory(Tail(cs), memoryMB)

\* (variant: the score without the cold start bonus)
totalScoreOfNoBonus(tier, costData) ==
    LET performanceScore == NumDiv(performanceScale, tier.warmStart.average)
        costEfficiencyScore == NumDiv(costData.costEfficiencyScore, scoreNormalization)
    IN  NumAdd(NumMul(performanceScore, performanceWeight),
               NumMul(costEfficiencyScore, costEfficiencyWeight))

\* lines 42-56: the balanced score of a tier with warm data
totalScoreOf(tier, costData) ==
    LET performanceScore == NumDiv(performanceScale, tier.warmStart.average)
        costEfficiencyScore == NumDiv(costData.costEfficiencyScore, scoreNormalization)
        coldStartBonus ==
            IF tier.coldStart # NULL
            THEN NumDiv(performanceScale, tier.coldStart.average)
            ELSE Zero
    IN  NumAdd(NumAdd(NumMul(performanceScore, performanceWeight),
                      NumMul(costEfficiencyScore, costEfficiencyWeight)),
               NumMul(coldStartBonus, coldStartWeight))

\* lines 60-66
OptimalMemoryConfig(tier, costData) ==
    [memoryMB     |-> tier.memoryMB,
     warmStartAvg |-> tier.warmStart.average,
     coldStartAvg |-> IF tier.coldStart # NULL THEN tier.coldStart.average ELSE NULL,
     blendedCost  |-> costData.blendedCostPer1M]

\* the comparison of line 58
beatsBest(totalScore, bestScore) == NumGreater(totalScore, bestScore)

\* results.forEach(result => {...}) of lines 36-69, on the state
\* (bestConfig, bestScore)
RECURSIVE selectBest(_, _, _)
selectBest(best, results, allConfigurations) ==
    IF results = << >> THEN best
    ELSE LET tier == Head(results)
             costData == findByMemory(allConfigurations, tier.memoryMB)
             next ==
                IF tier.warmStart # NULL /\ costData # NULL
                   /\ beatsBest(totalScoreOf(tier, costData), best.bestScore)
                THEN [bestConfig |-> OptimalMemoryConfig(tier, costData),
                      bestScore  |-> totalScoreOf(tier, costData)]
                ELSE best
         IN  selectBest(next, Tail(results), allConfigurations)

\* lines 34-71: the best configuration, given what analyzeCostEfficiency
\* returned (or that it threw)
bestConfigOf(costAnalysis, results) ==
    IF costAnalysis = Threw THEN Threw
    ELSE IF costAnalysis = NULL THEN NULL
    ELSE selectBest([bestConfig |-> NULL, bestScore |-> Zero],
                    results, costAnalysis.allConfigurations).bestConfig

\* lines 33-71 on the arrays the call of line 33 leaves: the forEach of
\* line 36 walks results as it is then
bestConfigOfArrays(arrays) ==
    bestConfigOf(CostAnalyzerOutput(arrays.costAnalysis), arrays.results)

findOptimalMemoryConfig(results) ==
    IF Len(results) = 0 THEN NULL
    ELSE bestConfigOfArrays(arraysOfAnalysis(results))

\* the array of the caller when findOptimalMemoryConfig(results) or
\* analyzeCostEfficiency(results) has returned or thrown
resultsAfterCall(results) ==
    IF Len(results) = 0 THEN results ELSE arraysOfAnalysis(results).results

(***************************************************************************)
(* CostAnalyzer.determineBestUseCase (cost-analyzer.ts:134-164)            *)
(***************************************************************************)
\* allConfigs.reduce((best, current) =>
\*     current.costPer1MInvocations < best.costPer1MInvocations ? current : best)
RECURSIVE reduceWarmOptimal(_, _)
reduceWarmOptimal(best, cs) ==
    IF cs = << >> THEN best
    ELSE reduceWarmOptimal(
            IF NumLess(Head(cs).costPer1MInvocations, best.costPer1MInvocations)
            THEN Head(cs) ELSE best,
            Tail(cs))

\* allConfigs.reduce((fastest, current) =>
\*     current.avgExecutionTime < fastest.avgExecutionTime ? current : fastest)
RECURSIVE reducePerfOptimal(_, _)
reducePerfOptimal(fastest, cs) ==
    IF cs = << >> THEN fastest
    ELSE reducePerfOptimal(
            IF NumLess(Head(cs).avgExecutionTime, fastest.avgExecutionTime)
            THEN Head(cs) ELSE fastest,
            Tail(cs))

\* allConfigs.findIndex(c => c.memoryMB === memoryMB): 0-based, -1 if none
RECURSIVE findIndex(_, _)
findIndex(cs, memoryMB) ==
    IF cs = << >> THEN -1
    ELSE IF Head(cs).memoryMB = memoryMB THEN 0
    ELSE LET rest == findIndex(Tail(cs), memoryMB)
         IN  IF rest = -1 THEN -1 ELSE rest + 1

\* lines 152-162: the label by position; costRank < totalConfigs / 3 and
\* costRank > (totalConfigs * 2) / 3 compared without dividing
useCaseByRank(costRank, totalConfigs) ==
    IF 3 * costRank < totalConfigs THEN "Budget focused"
    ELSE IF 3 * costRank > totalConfigs * 2 THEN "Performance focused"
    ELSE "Balanced workload"

\* (variant: the fastest rule is tried before the warm-cost rule)
determineBestUseCaseFastestFirst(config, costAnalysis) ==
    LET allConfigs == costAnalysis.allConfigurations
        warmOptimal == reduceWarmOptimal(Head(allConfigs), Tail(allConfigs))
        perfOptimal == reducePerfOptimal(Head(allConfigs), Tail(allConfigs))
        mostCostEfficient == costAnalysis.mostCostEfficient
    IN  IF config.memoryMB = perfOptimal.memoryMB
        THEN "Cold start sensitive (fastest)"
        ELSE IF config.memoryMB = warmOptimal.memoryMB
        THEN "High frequency (best warm cost)"
        ELSE IF config.memoryMB = mostCostEfficient.memoryMB
        THEN "Most cost efficient (blended)"
        ELSE useCaseByRank(findIndex(allConfigs, config.memoryMB), Len(allConfigs))

determineBestUseCase(config, costAnalysis) ==
    LET allConfigs == costAnalysis.allConfigurations
        warmOptimal == reduceWarmOptimal(Head(allConfigs), Tail(allConfigs))
        perfOptimal == reducePerfOptimal(Head(allConfigs), Tail(allConfigs))
        mostCostEfficient == costAnalysis.mostCostEfficient
    IN  IF config.memoryMB = warmOptimal.memoryMB
        THEN "High frequency (best warm cost)"
        ELSE IF config.memoryMB = perfOptimal.memoryMB
        THEN "Cold start sensitive (fastest)"
        ELSE IF config.memoryMB = mostCostEfficient.memoryMB
        THEN "Most cost efficient (blended)"
        ELSE useCaseByRank(findIndex(allConfigs, config.memoryMB), Len(allConfigs))

(***************************************************************************)
(* PerformanceInsightsAnalyzer (performance-insights-analyzer.ts)          *)
(***************************************************************************)
\* An insight is a sentence; the model keeps its kind and the values the
\* sentence is built from: memoryMB is the tier the sentence is about,
\* otherMB the tier it is compared with (the text and its toFixed(1)
\* rounding are not modelled).  The savings sentence names its baseline by
\* the literal "128MB" (line 74), whatever allConfigurations[0] is.
Insight(kind, functionType, memoryMB, otherMB, percent, otherPercent) ==
    [kind |-> kind, functionType |-> functionType, memoryMB |-> memoryMB,
     otherMB |-> otherMB, percent |-> percent, otherPercent |-> otherPercent]

\* (variant: a later tier that ties the fastest time replaces it)
RECURSIVE reduceFastestOnTies(_, _)
reduceFastestOnTies(fastest, cs) ==
    IF cs = << >> THEN fastest
    ELSE reduceFastestOnTies(
            IF ~NumGreater(Head(cs).avgExecutionTime, fastest.avgExecutionTime)
            THEN Head(cs) ELSE fastest,
            Tail(cs))

\* allConfigurations.reduce((fastest, current) =>
\*     current.avgExecutionTime < fastest.avgExecutionTime ? current : fastest)
RECURSIVE reduceFastest(_, _)
reduceFastest(fastest, cs) ==
    IF cs = << >> THEN fastest
    ELSE reduceFastest(
            IF NumLess(Head(cs).avgExecutionTime, fastest.avgExecutionTime)
            THEN Head(cs) ELSE fastest,
            Tail(cs))

\* (a - b) / c * 100
percentOf(a, b, c) == NumMul(NumDiv(NumSub(a, b), c), Hundred)

\* (variant: the saving is taken relative to the most cost-efficient tier)
addFunctionInsightsRelativeToBest(costAnalysis, functionType) ==
    LET baseline == costAnalysis.allConfigurations[1]
        fastest == reduceFastest(baseline, Tail(costAnalysis.allConfigurations))
        mostCostEfficient == costAnalysis.mostCostEfficient
        perfImprovement ==
            percentOf(baseline.avgExecutionTime, fastest.avgExecutionTime,
                      baseline.avgExecutionTime)
        costIncrease ==
            percentOf(fastest.blendedCostPer1M, baseline.blendedCostPer1M,
                      baseline.blendedCostPer1M)
        costSavings ==
            percentOf(baseline.blendedCostPer1M, mostCostEfficient.blendedCostPer1M,
                      mostCostEfficient.blendedCostPer1M)
    IN  (IF fastest.memoryMB # baseline.memoryMB
         THEN << Insight("tradeoff", functionType, fastest.memoryMB,
                         baseline.memoryMB, perfImprovement, costIncrease) >>
         ELSE << >>)
        \o
        (IF mostCostEfficient.memoryMB # baseline.memoryMB
            /\ NumGreater(costSavings, Zero)
         THEN << Insight("savings", functionType, mostCostEfficient.memoryMB,
                         128, costSavings, Zero) >>
         ELSE << >>)

\* addFunctionInsights (lines 57-77): the insights it pushes, in order
addFunctionInsights(costAnalysis, functionType) ==
    LET baseline == costAnalysis.allConfigurations[1]
        fastest == reduceFastest(baseline, Tail(costAnalysis.allConfigurations))
        mostCostEfficient == costAnalysis.mostCostEfficient
        perfImprovement ==
            percentOf(baseline.avgExecutionTime, fastest.avgExecutionTime,
                      baseline.avgExecutionTime)
        costIncrease ==
            percentOf(fastest.blendedCostPer1M, baseline.blendedCostPer1M,
                      baseline.blendedCostPer1M)
        costSavings ==
            percentOf(baseline.blendedCostPer1M, mostCostEfficient.blendedCostPer1M,
                      baseline.blendedCostPer1M)
    IN  (IF fastest.memoryMB # baseline.memoryMB
         THEN << Insight("tradeoff", functionType, fastest.memoryMB,
                         baseline.memoryMB, perfImprovement, costIncrease) >>
         ELSE << >>)
        \o
        (IF mostCostEfficient.memoryMB # baseline.memoryMB
            /\ NumGreater(costSavings, Zero)
         THEN << Insight("savings", functionType, mostCostEfficient.memoryMB,
                         128, costSavings, Zero) >>
         ELSE << >>)

\* (variant: the comparison insight always reports different configurations)
generatePerformanceInsightsNoCompare(summary, tr) ==
    LET basicOptimal == summary.optimalMemoryConfigurations.basic
        computationOptimal == summary.optimalMemoryConfigurations.computation
    IN  (IF tr.basicFunctions # NULL /\ tr.computationFunctions # NULL
            /\ basicOptimal # NULL /\ computationOptimal # NULL
         THEN << Insight("differentConfigs", "both", basicOptimal.memoryMB,
                         computationOptimal.memoryMB, Zero, Zero) >>
         ELSE << >>)
        \o
        (IF summary.costEfficiencyAnalysis.basic # NULL
         THEN addFunctionInsights(summary.costEfficiencyAnalysis.basic, "basic")
         ELSE << >>)
        \o
        (IF summary.costEfficiencyAnalysis.computation # NULL
         THEN addFunctionInsights(summary.costEfficiencyAnalysis.computation,
                                  "computation")
         ELSE << >>)

\* generatePerformanceInsights (lines 24-52)
generatePerformanceInsights(summary, tr) ==
    LET basicOptimal == summary.optimalMemoryConfigurations.basic
        computationOptimal == summary.optimalMemoryConfigurations.computation
    IN  (IF tr.basicFunctions # NULL /\ tr.computationFunctions # NULL
            /\ basicOptimal # NULL /\ computationOptimal # NULL
         THEN IF basicOptimal.memoryMB # computationOptimal.memoryMB
              THEN << Insight("differentConfigs", "both", basicOptimal.memoryMB,
                              computationOptimal.memoryMB, Zero, Zero) >>
              ELSE << Insight("sameConfig", "both", basicOptimal.memoryMB,
                              computationOptimal.memoryMB, Zero, Zero) >>
         ELSE << >>)
        \o
        (IF summary.costEfficiencyAnalysis.basic # NULL
         THEN addFunctionInsights(summary.costEfficiencyAnalysis.basic, "basic")
         ELSE << >>)
        \o
        (IF summary.costEfficiencyAnalysis.computation # NULL
         THEN addFunctionInsights(summary.costEfficiencyAnalysis.computation,
                                  "computation")
         ELSE << >>)

(***************************************************************************)
(* AnalysisCoordinator.generateSummaryAnalysis (analysis-coordinator.ts:   *)
(* 35-82)                                                                  *)
(***************************************************************************)
\* lines 46-56 and 59-73: what one family contributes to the summary;
\* an absent optional field of the summary is NULL.  A family of
\* TestResults is NULL or FunctionTestResults(list of tiers).
familyOutputs(optimal, cost, tested) ==
    IF optimal = Threw \/ cost = Threw
    THEN [threw |-> TRUE, tested |-> tested, optimal |-> NULL, cost |-> NULL]
    ELSE [threw |-> FALSE, tested |-> tested, optimal |-> optimal, cost |-> cost]

familyAnalysis(functions) ==
    IF functions = NULL
    THEN [threw |-> FALSE, tested |-> 0, optimal |-> NULL, cost |-> NULL]
    ELSE familyOutputs(findOptimalMemoryConfig(functions.tiers),
                       analyzeCostEfficiency(functions.tiers),
                       Len(functions.tiers))

\* the TestSummary of lines 38-73, before the insights are added
TestSummary(basic, computation) ==
    [totalFunctionsTested |-> basic.tested + computation.tested,
     optimalMemoryConfigurations |->
         [basic |-> basic.optimal, computation |-> computation.optimal],
     costEfficiencyAnalysis |->
         [basic |-> basic.cost, computation |-> computation.cost],
     performanceInsights |-> << >>]

\* lines 75-81
summaryWithInsights(summary, tr) ==
    [summary EXCEPT
        !.performanceInsights = generatePerformanceInsights(summary, tr)]

summaryOf(basic, computation, tr) ==
    IF basic.threw \/ computation.threw
    THEN Threw
    ELSE summaryWithInsights(TestSummary(basic, computation), tr)

generateSummaryAnalysis(tr) ==
    summaryOf(familyAnalysis(tr.basicFunctions),
              familyAnalysis(tr.computationFunctions), tr)

(***************************************************************************)
(* AnalysisCoordinator.generateFunctionAnalysisData                        *)
(* (analysis-coordinator.ts:87-164)                                        *)
(***************************************************************************)
\* config.blendedScenarios, the default [0.05, 0.1, 0.2, 0.5]
\* (test-runner.ts:82)
blendedScenarios == << Decimal(5, 2), Decimal(1, 1), Decimal(2, 1), Decimal(5, 1) >>

\* performanceGain (lines 97-102, 122-127) and costChange (103-108, 128-133)
performanceGain(baseline, value) ==
    IF NumGreater(baseline, Zero) THEN percentOf(baseline, value, baseline) ELSE Zero
costChange(baseline, value) ==
    IF NumGreater(baseline, Zero) THEN percentOf(value, baseline, baseline) ELSE Zero

PerformanceDataPoint(memoryMB, executionTime, cost, baselineTime, baselineCost) ==
    [memoryMB        |-> memoryMB,
     executionTime   |-> executionTime,
     cost            |-> cost,
     performanceGain |-> performanceGain(baselineTime, executionTime),
     costChange      |-> costChange(baselineCost, cost)]

\* lines 93-109
warmStartData(all) ==
    [i \in 1..Len(all) |->
        PerformanceDataPoint(all[i].memoryMB, all[i].avgExecutionTime,
                             all[i].costPer1MInvocations,
                             all[1].avgExecutionTime, all[1].costPer1MInvocations)]

\* lines 112-114
coldConfigs(all) == SelectSeq(all, LAMBDA config : config.coldStartTime # NULL)

\* lines 115-135, on coldConfigs
coldStartData(cold) ==
    [i \in 1..Len(cold) |->
        PerformanceDataPoint(cold[i].memoryMB, cold[i].coldStartTime,
                             cold[i].coldStartCostPer1M,
                             cold[1].coldStartTime, cold[1].coldStartCostPer1M)]

\* (variant: the mix is applied also to a configuration without cold cost)
scenarioCostAlwaysMixed(config, coldPercentage) ==
    NumAdd(NumMul(config.coldStartCostPer1M, coldPercentage),
           NumMul(config.costPer1MInvocations,
                  NumSub(One, coldPercentage)))

\* lines 141-148: scenarios[coldPercentage]
scenarioCost(config, coldPercentage) ==
    IF NumGreater(config.coldStartCostPer1M, Zero)
    THEN NumAdd(NumMul(config.coldStartCostPer1M, coldPercentage),
                NumMul(config.costPer1MInvocations,
                       NumSub(One, coldPercentage)))
    ELSE config.costPer1MInvocations

\* lines 139-149: the scenarios object, one entry per configured percentage
scenariosOf(config) ==
    [j \in 1..Len(blendedScenarios) |->
        [coldPercentage |-> blendedScenarios[j],
         cost           |-> scenarioCost(config, blendedScenarios[j])]]

\* lines 138-156
BlendedDataPoint(config, costAnalysis) ==
    [memoryMB  |-> config.memoryMB,
     scenarios |-> scenariosOf(config),
     useCase   |-> determineBestUseCase(config, costAnalysis)]

blendedData(costAnalysis) ==
    [i \in 1..Len(costAnalysis.allConfigurations) |->
        BlendedDataPoint(costAnalysis.allConfigurations[i], costAnalysis)]

generateFunctionAnalysisData(costAnalysis) ==
    [warmStart       |-> warmStartData(costAnalysis.allConfigurations),
     coldStart       |-> coldStartData(coldConfigs(costAnalysis.allConfigurations)),
     blended         |-> blendedData(costAnalysis),
     hasAnyColdStart |-> Len(coldConfigs(costAnalysis.allConfigurations)) > 0]

(***************************************************************************)
(* The analysis as a state machine: AnalysisSpec hands tier lists to       *)
(* generateSummaryAnalysis and records what each call returns, in the      *)
(* order of the code: findOptimalMemoryConfig (line 48), then              *)
(* analyzeCostEfficiency (line 52) unless the first call threw, then the   *)
(* summary returned (line 81), then generateFunctionAnalysisData on the    *)
(* cost analysis of the summary.                                           *)
(***************************************************************************)
\* memory tiers, and the averages (ms) of the Stats handed to the analysis
Stats(averages) == { [average |-> Number(a)] : a \in averages }

\* FunctionTestResult (types/test-runner.ts:12-17)
Tier ==
    [memoryMB  : {128, 256, 1024},
     warmStart : {NULL} \cup Stats({0, 10, 20}),
     coldStart : {NULL} \cup Stats({0, 40})]

\* runTests yields one FunctionTestResult per entry of config.configs:
\* the tiers of a list have distinct memory sizes, here in any order
TierLists ==
    UNION { { l \in [1..k -> Tier] :
                \A i, j \in 1..k : i # j => l[i].memoryMB # l[j].memoryMB } :
            k \in 0..MaxTiers }

\* a basic family measured at 128 MB (3243 ms warm) and at 3008 MB (138 ms
\* warm), both of BASIC_CONFIG.configs (test-runner.ts:35): the two blended
\* costs, equal as real numbers, differ in the last bit as computed on
\* lines 86-89, and the two costEfficiencyScore values of line 114 are equal
RoundingTierLists ==
    LET slow == [memoryMB |-> 128, warmStart |-> [average |-> Number(3243)],
                 coldStart |-> NULL]
        fast == [memoryMB |-> 3008, warmStart |-> [average |-> Number(138)],
                 coldStart |-> NULL]
    IN  { << slow, fast >>, << fast, slow >> }

\* a FunctionTestResult[] that is not null
FunctionTestResults(tiers) == [tiers |-> tiers]

\* a family of testResults after the calls made on it
familyAfterCall(functions) ==
    IF functions = NULL THEN NULL
    ELSE FunctionTestResults(resultsAfterCall(functions.tiers))

\* the second family: absent, empty, without warm data, or one usable tier
ComputationInputs ==
    {NULL, FunctionTestResults(<< >>)}
    \cup { FunctionTestResults(
             << [memoryMB |-> 128, warmStart |-> NULL, coldStart |-> c] >>) :
             c \in Stats({40}) }
    \cup { FunctionTestResults(
             << [memoryMB |-> m, warmStart |-> w, coldStart |-> NULL] >>) :
             m \in {128, 1024}, w \in Stats({10}) }

AnalysisInit ==
    /\ targetColdStarts = 0
    /\ targetWarmStarts = 0
    /\ maxConcurrentRequests = 1
    /\ maxRequests = 1
    /\ coldStartResults = << >>
    /\ warmStartResults = << >>
    /\ totalRequestsAttempted = 0
    /\ batchNumber = 1
    /\ requests = << >>
    /\ responses = << >>
    /\ pc = "while"
    /\ exitReason = "none"
    /\ batchPath = "none"
    /\ result = NULL
    /\ testResults \in
          [basicFunctions : {NULL}
              \cup { FunctionTestResults(l) : l \in TierLists \cup RoundingTierLists },
           computationFunctions : ComputationInputs]
    /\ optimalConfig = NotCalled
    /\ costAnalysisOutput = NotCalled
    /\ summaryOutput = NotCalled
    /\ useCaseOutput = NotCalled
    /\ analysisData = NotCalled

\* costAnalyzer.findOptimalMemoryConfig(testResults.basicFunctions)
\* (analysis-coordinator.ts:48)
FindOptimalMemoryConfig ==
    /\ testResults.basicFunctions # NULL
    /\ optimalConfig = NotCalled
    /\ optimalConfig' = findOptimalMemoryConfig(testResults.basicFunctions.tiers)
    /\ testResults' =
          [testResults EXCEPT !.basicFunctions = familyAfterCall(@)]
    /\ UNCHANGED << collectorVars, costAnalysisOutput, summaryOutput,
                    useCaseOutput, analysisData >>

\* costAnalyzer.analyzeCostEfficiency(testResults.basicFunctions)
\* (analysis-coordinator.ts:52), reached when line 48 has returned
AnalyzeCostEfficiency ==
    /\ testResults.basicFunctions # NULL
    /\ optimalConfig \notin {NotCalled, Threw}
    /\ costAnalysisOutput = NotCalled
    /\ costAnalysisOutput' = analyzeCostEfficiency(testResults.basicFunctions.tiers)
    /\ testResults' =
          [testResults EXCEPT !.basicFunctions = familyAfterCall(@)]
    /\ UNCHANGED << collectorVars, optimalConfig, summaryOutput,
                    useCaseOutput, analysisData >>

\* analysisCoordinator.generateSummaryAnalysis(testResults) returns or
\* throws, the calls on the basic family having been made
GenerateSummaryAnalysis ==
    /\ testResults.basicFunctions # NULL
          => (optimalConfig = Threw \/ costAnalysisOutput # NotCalled)
    /\ summaryOutput = NotCalled
    /\ useCaseOutput = NotCalled
    /\ summaryOutput' = generateSummaryAnalysis(testResults)
    /\ testResults' =
          [basicFunctions       |-> familyAfterCall(testResults.basicFunctions),
           computationFunctions |-> familyAfterCall(testResults.computationFunctions)]
    /\ UNCHANGED << collectorVars, optimalConfig, costAnalysisOutput,
                    useCaseOutput, analysisData >>

\* generateAnalysisData (analysis-coordinator.ts:217-221), basic family:
\* generateFunctionAnalysisData(testResults.summary.costEfficiencyAnalysis.basic)
GenerateFunctionAnalysisData ==
    /\ summaryOutput \notin {NotCalled, Threw}
    /\ summaryOutput.costEfficiencyAnalysis.basic # NULL
    /\ analysisData = NotCalled
    /\ analysisData' =
          generateFunctionAnalysisData(summaryOutput.costEfficiencyAnalysis.basic)
    /\ UNCHANGED << collectorVars, testResults, optimalConfig, costAnalysisOutput,
                    summaryOutput, useCaseOutput >>

AnalysisNext ==
    \/ FindOptimalMemoryConfig
    \/ AnalyzeCostEfficiency
    \/ GenerateSummaryAnalysis
    \/ GenerateFunctionAnalysisData

AnalysisSpec == AnalysisInit /\ [][AnalysisNext]_vars

(***************************************************************************)
(* The labelling as a state machine: UseCaseSpec analyses one family, as   *)
(* generateSummaryAnalysis does, and asks determineBestUseCase for the     *)
(* label of one of its configurations, as generateFunctionAnalysisData     *)
(* does for each of them (analysis-coordinator.ts:154).                    *)
(***************************************************************************)
\* tiers of four memory sizes, warm averages of 5, 10 or 20 ms and cold data
\* absent or 400 ms
UseCaseTier ==
    [memoryMB  : {128, 256, 512, 1024},
     warmStart : Stats({5, 10, 20}),
     coldStart : {NULL} \cup Stats({400})]

\* the tiers follow config.configs, listed in ascending memory order
UseCaseTierLists ==
    UNION { { l \in [1..k -> UseCaseTier] :
                \A i \in 1..(k - 1) : l[i].memoryMB < l[i + 1].memoryMB } :
            k \in 1..MaxConfigs }

UseCaseInit ==
    /\ targetColdStarts = 0
    /\ targetWarmStarts = 0
    /\ maxConcurrentRequests = 1
    /\ maxRequests = 1
    /\ coldStartResults = << >>
    /\ warmStartResults = << >>
    /\ totalRequestsAttempted = 0
    /\ batchNumber = 1
    /\ requests = << >>
    /\ responses = << >>
    /\ pc = "while"
    /\ exitReason = "none"
    /\ batchPath = "none"
    /\ result = NULL
    /\ testResults \in
          [basicFunctions : { FunctionTestResults(l) : l \in UseCaseTierLists },
           computationFunctions : {NULL}]
    /\ optimalConfig = NotCalled
    /\ costAnalysisOutput = NotCalled
    /\ summaryOutput = NotCalled
    /\ useCaseOutput = NotCalled
    /\ analysisData = NotCalled

\* costAnalyzer.determineBestUseCase(config, costAnalysis) for one config of
\* costAnalysis.allConfigurations
DetermineBestUseCase ==
    /\ costAnalysisOutput \notin {NotCalled, NULL, Threw}
    /\ useCaseOutput = NotCalled
    /\ \E i \in 1..Len(costAnalysisOutput.allConfigurations) :
          useCaseOutput' =
             [config  |-> costAnalysisOutput.allConfigurations[i],
              useCase |-> determineBestUseCase(
                             costAnalysisOutput.allConfigurations[i],
                             costAnalysisOutput)]
    /\ UNCHANGED << collectorVars, testResults, optimalConfig, costAnalysisOutput,
                    summaryOutput, analysisData >>

UseCaseNext ==
    \/ FindOptimalMemoryConfig
    \/ AnalyzeCostEfficiency
    \/ DetermineBestUseCase

UseCaseSpec == UseCaseInit /\ [][UseCaseNext]_vars

(***************************************************************************)
(* Properties of the collector.                                            *)
(***************************************************************************)
Min(a, b) == IF a < b THEN a ELSE b

\* number of valid responses of rs that report coldStart = cold
RECURSIVE countOk(_, _)
countOk(rs, cold) ==
    IF rs = << >> THEN 0
    ELSE (IF Head(rs).tag = "ok" /\ Head(rs).coldStart = cold THEN 1 ELSE 0)
         + countOk(Tail(rs), cold)

\* the orders in which the responses of rs can be arranged
Arrangements(rs) ==
    { [i \in 1..Len(rs) |-> rs[f[i]]] :
        f \in { g \in [1..Len(rs) -> 1..Len(rs)] :
                  \A i, j \in 1..Len(rs) : i # j => g[i] # g[j] } }

loopExited == pc \in {"exited", "returned"}
batchHandled == batchPath # "none"

\* C1: in every state of the batching loop and at return, the stored cold
\* samples number at most targetColdStarts and the stored warm samples at
\* most targetWarmStarts.
C1_NeverOvershoots ==
    /\ Len(coldStartResults) <= targetColdStarts
    /\ Len(warmStartResults) <= targetWarmStarts

\* C1 witness: a batch brought more cold responses than the cold target
\* admits, and the run returned with the cold sequence exactly full.
C1_Witness ==
    /\ pc = "returned"
    /\ targetColdStarts > 0
    /\ countOk(responses, TRUE) > targetColdStarts
    /\ Len(coldStartResults) = targetColdStarts

\* C2: the safety ceiling ends the loop on the error path as on the normal
\* path, so the run returns: control is never back at the loop head, about
\* to fire another batch, with more than maxRequests attempts accumulated.
C2_CeilingEndsLoop ==
    ~(pc = "while" /\ totalRequestsAttempted > maxRequests)

\* C3: once the loop has exited, the exit was caused either by both targets
\* being satisfied or by totalRequestsAttempted > maxRequests, there is no
\* other exit, and the result returned holds what was collected.
C3_TwoExits ==
    loopExited =>
        /\ exitReason \in {"condition", "targets", "ceiling"}
        /\ exitReason \in {"condition", "targets"}
              => haveEnough(coldStartResults, warmStartResults)
        /\ exitReason = "ceiling"
              => /\ totalRequestsAttempted > maxRequests
                 /\ ~haveEnough(coldStartResults, warmStartResults)
        /\ pc = "returned"
              => /\ (result.coldStart = NULL) = (coldStartResults = << >>)
                 /\ (result.warmStart = NULL) = (warmStartResults = << >>)
                 /\ result.coldStart # NULL
                       => result.coldStart.count = Len(coldStartResults)
                 /\ result.warmStart # NULL
                       => result.warmStart.count = Len(warmStartResults)

\* C3 witness: a run stopped by the ceiling returned partial data.
C3_Witness ==
    /\ pc = "returned"
    /\ exitReason = "ceiling"
    /\ Len(coldStartResults) < targetColdStarts
    /\ result.warmStart # NULL
    /\ result.warmStart.count = Len(warmStartResults)

\* C4: a batch whose requests all rejected is handled by the catch block
\* (backoff of warmupDelay, then retry), not as a normal batch.
C4_AllFailedBacksOff ==
    (batchHandled /\ requests # << >>
       /\ \A i \in 1..Len(requests) : requests[i].status = "rejected")
    => batchPath = "catch"

\* C7: in a batch where some requests fail and others succeed, every
\* successful response is classified and, if under target, stored, and the
\* failed requests contribute no sample: after the batch each sequence holds
\* min(target, samples before + successful responses of its class).
C7_SuccessesProcessed ==
    [][(pc = "process" /\ anyRejected(requests)
          /\ \E i \in 1..Len(requests) : requests[i].status = "fulfilled")
       => /\ Len(coldStartResults') =
                Min(targetColdStarts,
                    Len(coldStartResults) + countOk(fulfilledValues(requests), TRUE))
          /\ Len(warmStartResults') =
                Min(targetWarmStarts,
                    Len(warmStartResults) + countOk(fulfilledValues(requests), FALSE))]_vars

\* C8: batches are strictly sequential: whenever the loop is anywhere but
\* awaiting the current batch (in particular when it fires the next one), no
\* request is unresolved, also after a request of the batch failed early.
C8_BatchesSequential ==
    pc \notin {"awaitAll", "awaitSettled"} => ~anyPending(requests)

\* C8 witness: in a second or later batch a request has failed, Promise.all
\* has rejected, and other requests of the batch are still in flight.
C8_Witness ==
    /\ pc = "awaitSettled"
    /\ totalRequestsAttempted > 0
    /\ anyRejected(requests)
    /\ anyPending(requests)

\* C9: counting is order-independent within a batch: for the batch about to
\* be processed, every arrangement of its responses yields the same cold
\* count and the same warm count.
C9_OrderIndependent ==
    pc = "process" =>
        \A perm \in Arrangements(responses) :
            LET a == processResponses(coldStartResults, warmStartResults, responses)
                b == processResponses(coldStartResults, warmStartResults, perm)
            IN  Len(a.cold) = Len(b.cold) /\ Len(a.warm) = Len(b.warm)

\* C10: processing a batch raises totalRequestsAttempted by
\* maxConcurrentRequests whatever its responses were (a count above
\* MaxAttempts being held as Beyond), and responses lacking performance or
\* executionEnvironment add no sample: each sequence grows by at most the
\* number of valid responses of its class.
C10_MalformedCountsAsAttempt ==
    [][pc = "process"
       => /\ totalRequestsAttempted + maxConcurrentRequests <= MaxAttempts
                => totalRequestsAttempted' =
                      totalRequestsAttempted + maxConcurrentRequests
          /\ totalRequestsAttempted + maxConcurrentRequests > MaxAttempts
                => totalRequestsAttempted' = Beyond
          /\ Len(coldStartResults') - Len(coldStartResults) <= countOk(responses, TRUE)
          /\ Len(warmStartResults') - Len(warmStartResults) <= countOk(responses, FALSE)
          /\ Len(coldStartResults') >= Len(coldStartResults)
          /\ Len(warmStartResults') >= Len(warmStartResults)]_vars

\* C10 witness: a batch made only of malformed and failed responses was
\* handled: no sample stored, the attempts counted.
C10_Witness ==
    /\ batchPath = "normal"
    /\ totalRequestsAttempted = maxConcurrentRequests
    /\ MalformedResponse \in { responses[i] : i \in 1..Len(responses) }
    /\ anyRejected(requests)
    /\ coldStartResults = << >> /\ warmStartResults = << >>

IsPrefix(s, t) == Len(s) <= Len(t) /\ SubSeq(t, 1, Len(s)) = s

\* C11: stored samples are never removed or replaced (each sequence only
\* grows at its end), and a sequence that has reached its target is left
\* unchanged by every further batch: same samples, same order.
C11_FullSequenceFrozen ==
    [][/\ IsPrefix(coldStartResults, coldStartResults')
       /\ IsPrefix(warmStartResults, warmStartResults')
       /\ Len(coldStartResults) >= targetColdStarts
             => coldStartResults' = coldStartResults
       /\ Len(warmStartResults) >= targetWarmStarts
             => warmStartResults' = warmStartResults]_vars

\* C11 witness: the batch handled last carried cold responses, all of 10 ms,
\* while the cold sequence, full at target 1, still holds the 0 ms sample
\* of an earlier batch: the new cold responses were discarded.
C11_Witness ==
    /\ batchPath = "normal"
    /\ batchNumber > 2
    /\ targetColdStarts = 1
    /\ coldStartResults = << [duration |-> Number(0), isColdStart |-> TRUE] >>
    /\ countOk(responses, TRUE) > 0
    /\ \A i \in 1..Len(responses) :
          (responses[i].tag = "ok" /\ responses[i].coldStart)
             => responses[i].duration = Number(10)

\* the sum of the first n durations of samples, added in this order to 0
RECURSIVE sumTo(_, _)
sumTo(samples, n) ==
    IF n = 0 THEN Zero ELSE NumAdd(sumTo(samples, n - 1), samples[n].duration)

\* the Stats object stats describes the stored samples: null for none, else
\* their count, smallest and largest duration (-0 counting as smaller than
\* 0) and sum / count
statsOf(stats, samples) ==
    IF samples = << >> THEN stats = NULL
    ELSE /\ stats # NULL
         /\ stats.count = Len(samples)
         /\ \A i \in 1..Len(samples) :
               /\ ~NumLess(samples[i].duration, stats.min)
               /\ ~NumLess(stats.max, samples[i].duration)
               /\ (samples[i].duration = SignedZero(TRUE) /\ stats.min.cls = "zero")
                     => stats.min.neg
               /\ (samples[i].duration = Zero /\ stats.max.cls = "zero")
                     => ~stats.max.neg
         /\ \E i \in 1..Len(samples) : stats.min = samples[i].duration
         /\ \E i \in 1..Len(samples) : stats.max = samples[i].duration
         /\ stats.average =
               NumDiv(sumTo(samples, Len(samples)), Number(Len(samples)))

\* min <= average <= max
averageInRange(stats) ==
    stats # NULL =>
        /\ ~NumLess(stats.average, stats.min)
        /\ ~NumLess(stats.max, stats.average)

\* every stored duration is a whole number of milliseconds
wholeDurations(samples) ==
    \A i \in 1..Len(samples) : samples[i].duration \in { Number(k) : k \in 0..10 }

\* C12 as stated: the result returned has coldStart = null exactly when no
\* cold sample was stored and warmStart = null exactly when no warm sample
\* was stored; otherwise count, min, max and average = sum / count describe
\* the stored samples of the class, and so min <= average <= max.
C12_StatsOfStoredSamples ==
    pc = "returned" =>
        /\ statsOf(result.coldStart, coldStartResults)
        /\ statsOf(result.warmStart, warmStartResults)
        /\ averageInRange(result.coldStart)
        /\ averageInRange(result.warmStart)

\* C12, amended: null, count, min and max as stated; average is the sum of
\* the stored durations, added from the left in floating point, divided by
\* count; min <= average <= max holds when every stored duration of the
\* class is a whole number of milliseconds, and is not claimed otherwise.
C12_AverageUpToRounding ==
    pc = "returned" =>
        /\ statsOf(result.coldStart, coldStartResults)
        /\ statsOf(result.warmStart, warmStartResults)
        /\ wholeDurations(coldStartResults) => averageInRange(result.coldStart)
        /\ wholeDurations(warmStartResults) => averageInRange(result.warmStart)

\* C12 witness: a run returned without cold samples and with three warm
\* samples of 0.1 ms each; their average is above the largest of them.
C12_Witness ==
    /\ pc = "returned"
    /\ result.coldStart = NULL
    /\ result.warmStart # NULL
    /\ result.warmStart.count = 3
    /\ result.warmStart.min = Decimal(1, 1)
    /\ result.warmStart.max = Decimal(1, 1)
    /\ NumLess(result.warmStart.max, result.warmStart.average)

\* C13: durations are validated before a sample is accepted: no stored
\* sample has a totalExecutionTime of zero or less, so every average of the
\* result returned is > 0.
C13_DurationsValidated ==
    /\ \A i \in 1..Len(coldStartResults) :
          NumGreater(coldStartResults[i].duration, Zero)
    /\ \A i \in 1..Len(warmStartResults) :
          NumGreater(warmStartResults[i].duration, Zero)
    /\ (pc = "returned" /\ result.coldStart # NULL)
          => NumGreater(result.coldStart.average, Zero)
    /\ (pc = "returned" /\ result.warmStart # NULL)
          => NumGreater(result.warmStart.average, Zero)

(***************************************************************************)
(* Properties of the analysis.                                             *)
(***************************************************************************)
noWarmData(tiers) == \A i \in 1..Len(tiers) : tiers[i].warmStart = NULL

familyWithoutWarm(functions) ==
    functions # NULL /\ functions.tiers # << >> /\ noWarmData(functions.tiers)

\* C5: findOptimalMemoryConfig returns null, and raises no error, for every
\* tier list in which no tier has warmStart data, the non-empty lists whose
\* tiers all have warmStart = null included.
C5_NoWarmReturnsNull ==
    (testResults.basicFunctions # NULL /\ optimalConfig # NotCalled
       /\ noWarmData(testResults.basicFunctions.tiers))
    => optimalConfig = NULL

\* C6: generateSummaryAnalysis never throws on partial data: for a family
\* whose non-empty result list holds no warm sample the summary is still
\* produced, that family has no optimal configuration, and the cross-family
\* comparison is skipped.
C6_SummaryOnPartialData ==
    (summaryOutput # NotCalled
       /\ (\/ familyWithoutWarm(testResults.basicFunctions)
           \/ familyWithoutWarm(testResults.computationFunctions)))
    => /\ summaryOutput # Threw
       /\ familyWithoutWarm(testResults.basicFunctions)
             => summaryOutput.optimalMemoryConfigurations.basic = NULL
       /\ familyWithoutWarm(testResults.computationFunctions)
             => summaryOutput.optimalMemoryConfigurations.computation = NULL
       /\ \A i \in 1..Len(summaryOutput.performanceInsights) :
             summaryOutput.performanceInsights[i].kind
                \notin {"differentConfigs", "sameConfig"}

\* the tiers handed to the cost analyzer, and whether a call returned a value
basicTiers == testResults.basicFunctions.tiers
isOutput(v) == v \notin {NotCalled, NULL, Threw}

\* (memoryMB / 1024) * (average / 1000) * price * scale
costPer1M(memoryMB, average) ==
    NumMul(NumMul(NumMul(NumDiv(Number(memoryMB), mbPerGb),
                         NumDiv(average, msPerSecond)),
                  lambdaPricePerGbSecond),
           costCalculationScale)

hasWarm(tier) == tier.warmStart # NULL
hasPositiveCold(tier) ==
    tier.coldStart # NULL /\ NumGreater(tier.coldStart.average, Zero)

\* C14: for every tier with warm data analyzeCostEfficiency emits
\* costPer1MWarm = (memoryMB/1024)*(warmAvg/1000)*price*scale; with a cold
\* average > 0 the cold cost follows the same formula and blended =
\* cold*coldFrac + warm*(1-coldFrac), otherwise the cold cost is 0 and blended
\* is the warm cost; a list mixing both shapes is compared by
\* findOptimalMemoryConfig without error.
C14_CostFormulas ==
    isOutput(costAnalysisOutput) =>
        /\ \A i \in 1..Len(basicTiers) :
              hasWarm(basicTiers[i]) =>
                 LET tier == basicTiers[i]
                     c == findByMemory(costAnalysisOutput.allConfigurations,
                                       tier.memoryMB)
                 IN  /\ c # NULL
                     /\ c.costPer1MInvocations =
                            costPer1M(tier.memoryMB, tier.warmStart.average)
                     /\ IF hasPositiveCold(tier)
                        THEN /\ c.coldStartCostPer1M =
                                    costPer1M(tier.memoryMB, tier.coldStart.average)
                             /\ c.blendedCostPer1M =
                                    NumAdd(NumMul(c.coldStartCostPer1M,
                                                  defaultColdStartPercentage),
                                           NumMul(c.costPer1MInvocations,
                                                  NumSub(One,
                                                         defaultColdStartPercentage)))
                        ELSE /\ c.coldStartCostPer1M = Zero
                             /\ c.blendedCostPer1M = c.costPer1MInvocations
        /\ optimalConfig # Threw
        /\ optimalConfig # NULL

\* C14 witness: the analysis of a list holding a tier without cold data
\* (blended = warm cost > 0) and a tier with a cold average > 0 (blended is
\* the mix) was produced, and an optimal configuration was selected from it.
C14_Witness ==
    /\ isOutput(costAnalysisOutput)
    /\ isOutput(optimalConfig)
    /\ \E i, j \in 1..Len(costAnalysisOutput.allConfigurations) :
          LET a == costAnalysisOutput.allConfigurations[i]
              b == costAnalysisOutput.allConfigurations[j]
          IN  /\ a.coldStartTime = NULL
              /\ NumGreater(a.costPer1MInvocations, Zero)
              /\ a.blendedCostPer1M = a.costPer1MInvocations
              /\ b.coldStartTime # NULL
              /\ NumGreater(b.coldStartCostPer1M, b.costPer1MInvocations)
              /\ NumGreater(b.blendedCostPer1M, b.costPer1MInvocations)

\* C15: the score is guarded against a non-positive divisor: no
\* configuration emitted by analyzeCostEfficiency carries a
\* costEfficiencyScore obtained by dividing by a blended cost of zero.
C15_ScoreGuarded ==
    isOutput(costAnalysisOutput) =>
        \A i \in 1..Len(costAnalysisOutput.allConfigurations) :
            LET c == costAnalysisOutput.allConfigurations[i]
            IN  NumGreater(c.blendedCostPer1M, Zero) /\ IsFinite(c.costEfficiencyScore)

\* C16: with the warm average held fixed, costPer1MWarm is strictly
\* increasing in memoryMB: of two emitted configurations with the same warm
\* average, the one with less memory has the strictly lower warm cost.
C16_CostIncreasesWithMemory ==
    isOutput(costAnalysisOutput) =>
        \A i, j \in 1..Len(costAnalysisOutput.allConfigurations) :
            LET a == costAnalysisOutput.allConfigurations[i]
                b == costAnalysisOutput.allConfigurations[j]
            IN  (a.memoryMB < b.memoryMB /\ a.avgExecutionTime = b.avgExecutionTime)
                   => NumLess(a.costPer1MInvocations, b.costPer1MInvocations)

\* the totalScore findOptimalMemoryConfig gives to a tier with warm data
scoreOfTier(tier, tiers) ==
    totalScoreOf(tier, findByMemory(analyzeCostEfficiency(tiers).allConfigurations,
                                    tier.memoryMB))

\* the tiers with warm data whose totalScore no other such tier exceeds
topTiers(tiers) ==
    { i \in 1..Len(tiers) :
        /\ hasWarm(tiers[i])
        /\ \A j \in 1..Len(tiers) :
              hasWarm(tiers[j])
                 => ~NumGreater(scoreOfTier(tiers[j], tiers),
                                scoreOfTier(tiers[i], tiers)) }

\* C17: when several tiers share the highest totalScore, the configuration
\* returned is the one with the smallest memoryMB among them, whatever the
\* order of the input list.
C17_TieGoesToSmallestMemory ==
    isOutput(optimalConfig) =>
        \A i \in topTiers(basicTiers) :
            optimalConfig.memoryMB <= basicTiers[i].memoryMB

\* the list without its warm-less tiers
withWarmData(tiers) == SelectSeq(tiers, hasWarm)

\* C18: a tier with warmStart = null is excluded from selection: the
\* configuration returned belongs to a tier with warm data, and the call
\* returns what it returns on the list with the warm-less tiers removed.
C18_WarmlessExcluded ==
    (testResults.basicFunctions # NULL /\ optimalConfig # NotCalled) =>
        /\ optimalConfig = findOptimalMemoryConfig(withWarmData(basicTiers))
        /\ isOutput(optimalConfig)
              => \E i \in 1..Len(basicTiers) :
                    /\ basicTiers[i].memoryMB = optimalConfig.memoryMB
                    /\ hasWarm(basicTiers[i])

(***************************************************************************)
(* Properties of the labelling.                                            *)
(***************************************************************************)
LeadingUseCases ==
    {"High frequency (best warm cost)", "Cold start sensitive (fastest)",
     "Most cost efficient (blended)"}
RankUseCases == {"Budget focused", "Performance focused", "Balanced workload"}

labelled == useCaseOutput # NotCalled
labelledConfigs == costAnalysisOutput.allConfigurations

\* position of a configuration in the memory-ascending list, from 1
rankByMemory(config, all) ==
    Cardinality({ i \in 1..Len(all) : all[i].memoryMB <= config.memoryMB })

\* C19: a tier matched by none of the three leading rules is labelled by the
\* third of the memory-ascending list its position falls in: lowest third
\* 'Budget focused', highest third 'Performance focused', middle third
\* 'Balanced workload' (stated for lists whose length is a multiple of 3,
\* where the thirds are whole: of 3 tiers the largest is the highest third).
C19_ThirdsByRank ==
    (labelled /\ useCaseOutput.useCase \notin LeadingUseCases
       /\ Len(labelledConfigs) % 3 = 0)
    => LET position == rankByMemory(useCaseOutput.config, labelledConfigs)
           total == Len(labelledConfigs)
       IN  useCaseOutput.useCase =
              IF 3 * position <= total THEN "Budget focused"
              ELSE IF 3 * position > 2 * total THEN "Performance focused"
              ELSE "Balanced workload"

\* no configuration has a lower warm cost / a lower execution time / a
\* higher score than config
lowestWarmCost(config, all) ==
    \A i \in 1..Len(all) :
        ~NumLess(all[i].costPer1MInvocations, config.costPer1MInvocations)
lowestExecutionTime(config, all) ==
    \A i \in 1..Len(all) :
        ~NumLess(all[i].avgExecutionTime, config.avgExecutionTime)
highestScore(config, all) ==
    \A i \in 1..Len(all) :
        ~NumGreater(all[i].costEfficiencyScore, config.costEfficiencyScore)

\* the same, and every configuration with less memory is strictly worse
firstLowestWarmCost(config, all) ==
    /\ lowestWarmCost(config, all)
    /\ \A i \in 1..Len(all) :
          all[i].memoryMB < config.memoryMB
             => NumLess(config.costPer1MInvocations, all[i].costPer1MInvocations)
firstLowestExecutionTime(config, all) ==
    /\ lowestExecutionTime(config, all)
    /\ \A i \in 1..Len(all) :
          all[i].memoryMB < config.memoryMB
             => NumLess(config.avgExecutionTime, all[i].avgExecutionTime)
firstHighestScore(config, all) ==
    /\ highestScore(config, all)
    /\ \A i \in 1..Len(all) :
          all[i].memoryMB < config.memoryMB
             => NumGreater(config.costEfficiencyScore, all[i].costEfficiencyScore)

\* C20 as stated: determineBestUseCase returns a label for every tier, and
\* a tier with the globally lowest costPer1MWarm gets the best-warm-cost
\* label; otherwise a tier with the globally lowest avgExecutionTime gets
\* the fastest label; otherwise a tier holding the maximum
\* costEfficiencyScore gets the most-cost-efficient label.
C20_PriorityRules ==
    labelled =>
        LET c == useCaseOutput.config
            all == labelledConfigs
        IN  /\ useCaseOutput.useCase \in LeadingUseCases \cup RankUseCases
            /\ lowestWarmCost(c, all)
                  => useCaseOutput.useCase = "High frequency (best warm cost)"
            /\ (~lowestWarmCost(c, all) /\ lowestExecutionTime(c, all))
                  => useCaseOutput.useCase = "Cold start sensitive (fastest)"
            /\ (~lowestWarmCost(c, all) /\ ~lowestExecutionTime(c, all)
                   /\ highestScore(c, all))
                  => useCaseOutput.useCase = "Most cost efficient (blended)"

\* C20 amended: the rules are applied in that priority to the first tier, in
\* memory-ascending order, that attains the lowest costPer1MWarm, the lowest
\* avgExecutionTime and the maximum costEfficiencyScore respectively; a tier
\* that only ties with an earlier one falls through to the next rule, and a
\* tier matched by no rule gets one of the three rank labels.
C20_PriorityRulesFirstOnTies ==
    labelled =>
        LET c == useCaseOutput.config
            all == labelledConfigs
        IN  /\ useCaseOutput.useCase \in LeadingUseCases \cup RankUseCases
            /\ firstLowestWarmCost(c, all)
                  => useCaseOutput.useCase = "High frequency (best warm cost)"
            /\ (~firstLowestWarmCost(c, all) /\ firstLowestExecutionTime(c, all))
                  => useCaseOutput.useCase = "Cold start sensitive (fastest)"
            /\ (~firstLowestWarmCost(c, all) /\ ~firstLowestExecutionTime(c, all)
                   /\ firstHighestScore(c, all))
                  => useCaseOutput.useCase = "Most cost efficient (blended)"
            /\ (~firstLowestWarmCost(c, all) /\ ~firstLowestExecutionTime(c, all)
                   /\ ~firstHighestScore(c, all))
                  => useCaseOutput.useCase \in RankUseCases

\* C20 witness: among tiers of which one has no cold data, a tier that is
\* neither the cheapest warm nor the fastest but holds the maximum score was
\* labelled most cost efficient.
C20_Witness ==
    /\ labelled
    /\ useCaseOutput.useCase = "Most cost efficient (blended)"
    /\ ~lowestWarmCost(useCaseOutput.config, labelledConfigs)
    /\ ~lowestExecutionTime(useCaseOutput.config, labelledConfigs)
    /\ highestScore(useCaseOutput.config, labelledConfigs)
    /\ \E i \in 1..Len(labelledConfigs) : labelledConfigs[i].coldStartTime = NULL
    /\ \E i \in 1..Len(labelledConfigs) : labelledConfigs[i].coldStartTime # NULL

(***************************************************************************)
(* Properties of the analysis: determinism, insights, scenario table.      *)
(***************************************************************************)
\* C21: findOptimalMemoryConfig is deterministic and leaves its input
\* unchanged: the call does not reorder or modify the tier list, and a
\* second call, made on the list as the first call left it, returns the tier
\* the first call returned (or throws as the first did).
C21_DeterministicInputUnchanged ==
    [][optimalConfig' # optimalConfig =>
          /\ testResults' = testResults
          /\ findOptimalMemoryConfig(testResults'.basicFunctions.tiers)
                = optimalConfig']_vars

\* the call returned a tier for a list that is not in ascending memory
\* order, and on the same tiers in ascending order it returns another one
C21_Witness ==
    /\ isOutput(optimalConfig)
    /\ optimalConfig # NULL
    /\ Len(basicTiers) >= 2
    /\ basicTiers[1].memoryMB > basicTiers[2].memoryMB
    /\ findOptimalMemoryConfig(sortByMemory(basicTiers)) # optimalConfig

\* the insights of a returned summary, and the positions of those of one
\* kind about one family
performanceInsights == summaryOutput.performanceInsights
insightsOf(kind, functionType) ==
    { i \in 1..Len(performanceInsights) :
         /\ performanceInsights[i].kind = kind
         /\ performanceInsights[i].functionType = functionType }

\* both families are present and both have an optimal configuration
bothOptimal ==
    /\ testResults.basicFunctions # NULL
    /\ testResults.computationFunctions # NULL
    /\ summaryOutput.optimalMemoryConfigurations.basic # NULL
    /\ summaryOutput.optimalMemoryConfigurations.computation # NULL

\* C22: generatePerformanceInsights emits the "different memory
\* configurations" insight, naming both tiers, exactly when both families
\* have results, both have a non-null optimal configuration and the two
\* optimal memoryMB values differ.
C22_DifferentConfigsInsight ==
    isOutput(summaryOutput) =>
       LET basicOptimal == summaryOutput.optimalMemoryConfigurations.basic
           computationOptimal == summaryOutput.optimalMemoryConfigurations.computation
           emitted == insightsOf("differentConfigs", "both")
       IN  /\ Cardinality(emitted) <= 1
           /\ emitted # {} <=>
                 (bothOptimal /\ basicOptimal.memoryMB # computationOptimal.memoryMB)
           /\ \A i \in emitted :
                 /\ performanceInsights[i].memoryMB = basicOptimal.memoryMB
                 /\ performanceInsights[i].otherMB = computationOptimal.memoryMB

\* the insight was emitted for two families whose optimal tiers differ
C22_Witness ==
    /\ isOutput(summaryOutput)
    /\ insightsOf("differentConfigs", "both") # {}
    /\ bothOptimal
    /\ summaryOutput.optimalMemoryConfigurations.basic.memoryMB
          # summaryOutput.optimalMemoryConfigurations.computation.memoryMB

\* the families of a summary, and the cost analysis a returned summary holds
\* for one of them
FunctionTypes == {"basic", "computation"}
costAnalysisFor(functionType) == summaryOutput.costEfficiencyAnalysis[functionType]
testedTiers(functionType) ==
    IF functionType = "basic" THEN testResults.basicFunctions.tiers
    ELSE testResults.computationFunctions.tiers

\* the configurations whose avgExecutionTime is strictly below the baseline's
strictlyFaster(all) ==
    { i \in 1..Len(all) : NumLess(all[i].avgExecutionTime, all[1].avgExecutionTime) }

\* C23: for each family with a cost analysis, the trade-off insight is
\* emitted exactly when the tier with the lowest avgExecutionTime is not the
\* baseline (allConfigurations[0], the smallest-memory tier with warm data);
\* a tier that only ties the baseline's time does not trigger it; the insight
\* names the fastest tier and the baseline, and its performance delta is
\* (baseline - fastest) / baseline * 100.
C23_TradeoffInsight ==
    isOutput(summaryOutput) =>
       \A functionType \in FunctionTypes :
          costAnalysisFor(functionType) # NULL =>
             LET all == costAnalysisFor(functionType).allConfigurations
                 baseline == all[1]
                 emitted == insightsOf("tradeoff", functionType)
             IN  /\ \A i \in 1..Len(testedTiers(functionType)) :
                       hasWarm(testedTiers(functionType)[i]) =>
                          baseline.memoryMB <= testedTiers(functionType)[i].memoryMB
                 /\ Cardinality(emitted) <= 1
                 /\ emitted # {} <=> strictlyFaster(all) # {}
                 /\ \A i \in emitted :
                       \E k \in strictlyFaster(all) :
                          /\ performanceInsights[i].memoryMB = all[k].memoryMB
                          /\ performanceInsights[i].otherMB = baseline.memoryMB
                          /\ \A j \in 1..Len(all) :
                                ~NumLess(all[j].avgExecutionTime,
                                         all[k].avgExecutionTime)
                          /\ performanceInsights[i].percent =
                                NumMul(NumDiv(NumSub(baseline.avgExecutionTime,
                                                     all[k].avgExecutionTime),
                                              baseline.avgExecutionTime),
                                       Hundred)

\* the insight was emitted for the basic family
C23_Witness ==
    /\ isOutput(summaryOutput)
    /\ costAnalysisFor("basic") # NULL
    /\ insightsOf("tradeoff", "basic") # {}
    /\ strictlyFaster(costAnalysisFor("basic").allConfigurations) # {}

\* (baseline.blendedCostPer1M - mostCostEfficient.blendedCostPer1M)
\*    / baseline.blendedCostPer1M * 100
blendedSaving(cost) ==
    NumMul(NumDiv(NumSub(cost.allConfigurations[1].blendedCostPer1M,
                         cost.mostCostEfficient.blendedCostPer1M),
                  cost.allConfigurations[1].blendedCostPer1M),
           Hundred)

\* C24: for each family with a cost analysis, the savings insight is emitted
\* exactly when mostCostEfficient is a different tier from the baseline
\* (allConfigurations[0]) and the blended-cost saving relative to the
\* baseline is strictly positive; it carries that saving, and it is never
\* emitted when the baseline itself is the most cost-efficient tier.
C24_SavingsInsight ==
    isOutput(summaryOutput) =>
       \A functionType \in FunctionTypes :
          costAnalysisFor(functionType) # NULL =>
             LET cost == costAnalysisFor(functionType)
                 baseline == cost.allConfigurations[1]
                 emitted == insightsOf("savings", functionType)
             IN  /\ Cardinality(emitted) <= 1
                 /\ emitted # {} <=>
                       /\ cost.mostCostEfficient.memoryMB # baseline.memoryMB
                       /\ NumGreater(blendedSaving(cost), Zero)
                 /\ cost.mostCostEfficient.memoryMB = baseline.memoryMB
                       => emitted = {}
                 /\ \A i \in emitted :
                       /\ performanceInsights[i].memoryMB =
                             cost.mostCostEfficient.memoryMB
                       /\ performanceInsights[i].percent = blendedSaving(cost)

\* the insight was emitted for the basic family
C24_Witness ==
    /\ isOutput(summaryOutput)
    /\ costAnalysisFor("basic") # NULL
    /\ insightsOf("savings", "basic") # {}
    /\ costAnalysisFor("basic").mostCostEfficient.memoryMB
          # costAnalysisFor("basic").allConfigurations[1].memoryMB

\* the configured fraction f applied to a warm and a cold cost
mixOf(warmCost, coldCost, f) ==
    NumAdd(NumMul(coldCost, f), NumMul(warmCost, NumSub(One, f)))

\* C25: the blended-scenario table uses the formula of the cost model: for
\* every tier with warm data and every configured fraction f the entry is
\* coldCost*f + warmCost*(1-f) when the tier has a positive cold cost and
\* warmCost otherwise; the entry for f = defaultColdStartPercentage equals
\* the tier's blendedCostPer1M from analyzeCostEfficiency.
C25_ScenarioTable ==
    analysisData # NotCalled =>
       LET all == costAnalysisOutput.allConfigurations
       IN  /\ Len(analysisData.blended) = Len(all)
           /\ \A i \in 1..Len(all) :
                 LET tier == CHOOSE t \in { basicTiers[k] : k \in 1..Len(basicTiers) } :
                                 t.memoryMB = all[i].memoryMB
                     row == analysisData.blended[i]
                     warmCost == costPer1M(tier.memoryMB, tier.warmStart.average)
                 IN  /\ row.memoryMB = tier.memoryMB
                     /\ Len(row.scenarios) = Len(blendedScenarios)
                     /\ \A j \in 1..Len(blendedScenarios) :
                           /\ row.scenarios[j].coldPercentage = blendedScenarios[j]
                           /\ row.scenarios[j].cost =
                                 IF hasPositiveCold(tier)
                                 THEN mixOf(warmCost,
                                            costPer1M(tier.memoryMB,
                                                      tier.coldStart.average),
                                            blendedScenarios[j])
                                 ELSE warmCost
                           /\ blendedScenarios[j] = defaultColdStartPercentage
                                 => row.scenarios[j].cost = all[i].blendedCostPer1M

\* the table was built for a list with a tier whose cold cost is positive
\* (its entries differ between fractions) and a tier without cold cost
C25_Witness ==
    /\ analysisData # NotCalled
    /\ \E i, k \in 1..Len(analysisData.blended) :
          /\ analysisData.blended[i].scenarios[1].cost
                # analysisData.blended[i].scenarios[4].cost
          /\ analysisData.blended[k].scenarios[1].cost
                = costAnalysisOutput.allConfigurations[k].costPer1MInvocations
          /\ NumGreater(analysisData.blended[k].scenarios[1].cost, Zero)

\* blendedCostPer1M of a tier with warm data, from the formulas of the cost
\* model
blendedOf(tier) ==
    IF hasPositiveCold(tier)
    THEN mixOf(costPer1M(tier.memoryMB, tier.warmStart.average),
               costPer1M(tier.memoryMB, tier.coldStart.average),
               defaultColdStartPercentage)
    ELSE costPer1M(tier.memoryMB, tier.warmStart.average)

\* 0.5*(1000/warmAvg) + 0.3*(costEfficiencyScore/10000)
\*    + 0.2*(cold data present ? 1000/coldAvg : 0),
\* with costEfficiencyScore = scale / blendedCostPer1M
balancedScore(tier) ==
    NumAdd(NumAdd(NumMul(performanceWeight, NumDiv(performanceScale, tier.warmStart.average)),
                  NumMul(costEfficiencyWeight,
                         NumDiv(NumDiv(costCalculationScale, blendedOf(tier)),
                                scoreNormalization))),
           NumMul(coldStartWeight,
                  IF tier.coldStart # NULL
                  THEN NumDiv(performanceScale, tier.coldStart.average)
                  ELSE Zero))

\* a tier with warm data and a positive warm average
hasPositiveWarm(tier) ==
    hasWarm(tier) /\ NumGreater(tier.warmStart.average, Zero)

\* C27: when at least one tier has warm data with a positive average,
\* findOptimalMemoryConfig returns a non-null tier with warm data whose
\* totalScore is >= the totalScore of every other tier with warm data, and
\* the returned warmStartAvg, coldStartAvg and blendedCost are that tier's.
C27_HighestTotalScore ==
    (/\ testResults.basicFunctions # NULL
     /\ optimalConfig # NotCalled
     /\ \E i \in 1..Len(basicTiers) : hasPositiveWarm(basicTiers[i])) =>
        /\ isOutput(optimalConfig)
        /\ \E i \in 1..Len(basicTiers) :
              /\ hasWarm(basicTiers[i])
              /\ optimalConfig.memoryMB = basicTiers[i].memoryMB
              /\ optimalConfig.warmStartAvg = basicTiers[i].warmStart.average
              /\ optimalConfig.coldStartAvg =
                    (IF basicTiers[i].coldStart # NULL
                     THEN basicTiers[i].coldStart.average ELSE NULL)
              /\ optimalConfig.blendedCost = blendedOf(basicTiers[i])
              /\ \A j \in 1..Len(basicTiers) :
                    hasWarm(basicTiers[j]) =>
                       ~NumLess(balancedScore(basicTiers[i]),
                                balancedScore(basicTiers[j]))

\* the configuration returned has cold data and is not the first tier of the
\* list; another tier with a positive warm average has a lower totalScore
C27_Witness ==
    /\ isOutput(optimalConfig)
    /\ optimalConfig.coldStartAvg # NULL
    /\ Len(basicTiers) >= 2
    /\ optimalConfig.memoryMB # basicTiers[1].memoryMB
    /\ hasPositiveWarm(basicTiers[1])
    /\ \E i \in 1..Len(basicTiers) :
          /\ basicTiers[i].memoryMB = optimalConfig.memoryMB
          /\ NumLess(balancedScore(basicTiers[1]), balancedScore(basicTiers[i]))
          /\ IsFinite(balancedScore(basicTiers[i]))

\* every configuration of a cost analysis has a positive blended cost
positiveBlendedCosts(cost) ==
    \A i \in 1..Len(cost.allConfigurations) :
       NumGreater(cost.allConfigurations[i].blendedCostPer1M, Zero)

\* C29: in addFunctionInsights, for tiers with positive blended costs,
\* whenever mostCostEfficient is a different tier from the baseline its
\* blendedCostPer1M is strictly lower than the baseline's, so the saving is
\* > 0 and the savings insight is emitted; and no percentage is computed
\* with a zero baseline divisor: the trade-off percentages (computed when the
\* fastest tier is not the baseline) divide by a non-zero baseline time and
\* blended cost, the saving (computed when mostCostEfficient is not the
\* baseline) by a non-zero baseline blended cost, and all are finite.
C29_SavingsAlwaysPositive ==
    isOutput(summaryOutput) =>
       \A functionType \in FunctionTypes :
          costAnalysisFor(functionType) # NULL =>
             LET cost == costAnalysisFor(functionType)
                 baseline == cost.allConfigurations[1]
                 differs == cost.mostCostEfficient.memoryMB # baseline.memoryMB
             IN  /\ (differs /\ positiveBlendedCosts(cost)) =>
                       /\ NumLess(cost.mostCostEfficient.blendedCostPer1M,
                                  baseline.blendedCostPer1M)
                       /\ NumGreater(blendedSaving(cost), Zero)
                       /\ insightsOf("savings", functionType) # {}
                 /\ differs => baseline.blendedCostPer1M # Zero
                 /\ strictlyFaster(cost.allConfigurations) # {} =>
                       /\ baseline.avgExecutionTime # Zero
                       /\ baseline.blendedCostPer1M # Zero
                 /\ \A i \in insightsOf("tradeoff", functionType)
                              \cup insightsOf("savings", functionType) :
                       /\ IsFinite(performanceInsights[i].percent)
                       /\ IsFinite(performanceInsights[i].otherPercent)

\* a family whose blended costs are all positive, whose most cost-efficient
\* tier is not the baseline, and for which both insights were emitted
C29_Witness ==
    /\ isOutput(summaryOutput)
    /\ costAnalysisFor("basic") # NULL
    /\ positiveBlendedCosts(costAnalysisFor("basic"))
    /\ Len(costAnalysisFor("basic").allConfigurations) >= 2
    /\ costAnalysisFor("basic").mostCostEfficient.memoryMB
          # costAnalysisFor("basic").allConfigurations[1].memoryMB
    /\ insightsOf("savings", "basic") # {}
    /\ insightsOf("tradeoff", "basic") # {}

\* the positions of the tiers with warm data in a list
warmTiers(tiers) == { i \in 1..Len(tiers) : hasWarm(tiers[i]) }

\* C30 as stated: for every non-empty tier list with at least one tier with
\* warm data, analyzeCostEfficiency returns allConfigurations with exactly
\* one record per tier with warm data and none for the others, sorted by
\* ascending memoryMB whatever the input order; mostCostEfficient and
\* leastCostEfficient are members of allConfigurations with the lowest and
\* the highest blendedCostPer1M, the smallest memoryMB among ties.
C30_AllConfigurationsSorted ==
    (/\ testResults.basicFunctions # NULL
     /\ costAnalysisOutput # NotCalled
     /\ warmTiers(basicTiers) # {}) =>
        /\ isOutput(costAnalysisOutput)
        /\ LET all == costAnalysisOutput.allConfigurations
               most == costAnalysisOutput.mostCostEfficient
               least == costAnalysisOutput.leastCostEfficient
           IN  /\ Len(all) = Cardinality(warmTiers(basicTiers))
               /\ \A i \in warmTiers(basicTiers) :
                     \E k \in 1..Len(all) :
                        /\ all[k].memoryMB = basicTiers[i].memoryMB
                        /\ all[k].avgExecutionTime = basicTiers[i].warmStart.average
               /\ \A k \in 1..(Len(all) - 1) : all[k].memoryMB < all[k + 1].memoryMB
               /\ \E k \in 1..Len(all) : all[k] = most
               /\ \E k \in 1..Len(all) : all[k] = least
               /\ \A k \in 1..Len(all) :
                     /\ ~NumLess(all[k].blendedCostPer1M, most.blendedCostPer1M)
                     /\ all[k].blendedCostPer1M = most.blendedCostPer1M
                           => most.memoryMB <= all[k].memoryMB
                     /\ ~NumGreater(all[k].blendedCostPer1M, least.blendedCostPer1M)
                     /\ all[k].blendedCostPer1M = least.blendedCostPer1M
                           => least.memoryMB <= all[k].memoryMB

\* C30, amended: allConfigurations holds exactly one record per tier with
\* warm data and none for the others, sorted by ascending memoryMB whatever
\* the input order; mostCostEfficient and leastCostEfficient are members of
\* allConfigurations with the highest and the lowest costEfficiencyScore =
\* scale / blendedCostPer1M, the smallest memoryMB among the tiers with that
\* score; a tier with a blended cost below mostCostEfficient's, or above
\* leastCostEfficient's, has the same score as that tier (the two costs
\* differ by less than the division resolves).
C30_SelectedByScore ==
    (/\ testResults.basicFunctions # NULL
     /\ costAnalysisOutput # NotCalled
     /\ warmTiers(basicTiers) # {}) =>
        /\ isOutput(costAnalysisOutput)
        /\ LET all == costAnalysisOutput.allConfigurations
               most == costAnalysisOutput.mostCostEfficient
               least == costAnalysisOutput.leastCostEfficient
           IN  /\ Len(all) = Cardinality(warmTiers(basicTiers))
               /\ \A i \in warmTiers(basicTiers) :
                     \E k \in 1..Len(all) :
                        /\ all[k].memoryMB = basicTiers[i].memoryMB
                        /\ all[k].avgExecutionTime = basicTiers[i].warmStart.average
               /\ \A k \in 1..(Len(all) - 1) : all[k].memoryMB < all[k + 1].memoryMB
               /\ \E k \in 1..Len(all) : all[k] = most
               /\ \E k \in 1..Len(all) : all[k] = least
               /\ \A k \in 1..Len(all) :
                     /\ all[k].costEfficiencyScore
                           = NumDiv(costCalculationScale, all[k].blendedCostPer1M)
                     /\ ~NumGreater(all[k].costEfficiencyScore, most.costEfficiencyScore)
                     /\ all[k].costEfficiencyScore = most.costEfficiencyScore
                           => most.memoryMB <= all[k].memoryMB
                     /\ NumLess(all[k].blendedCostPer1M, most.blendedCostPer1M)
                           => all[k].costEfficiencyScore = most.costEfficiencyScore
                     /\ ~NumLess(all[k].costEfficiencyScore, least.costEfficiencyScore)
                     /\ all[k].costEfficiencyScore = least.costEfficiencyScore
                           => least.memoryMB <= all[k].memoryMB
                     /\ NumGreater(all[k].blendedCostPer1M, least.blendedCostPer1M)
                           => all[k].costEfficiencyScore = least.costEfficiencyScore

\* two tiers with warm data handed over in descending memory order; the
\* output starts with the smaller tier, whose blended cost is the lower one;
\* both tiers have the same score and the smaller tier is recorded as
\* leastCostEfficient
C30_Witness ==
    /\ isOutput(costAnalysisOutput)
    /\ Len(basicTiers) >= 2
    /\ hasWarm(basicTiers[1])
    /\ hasWarm(basicTiers[2])
    /\ basicTiers[1].memoryMB > basicTiers[2].memoryMB
    /\ costAnalysisOutput.allConfigurations[1].memoryMB = basicTiers[2].memoryMB
    /\ NumLess(costAnalysisOutput.allConfigurations[1].blendedCostPer1M,
               costAnalysisOutput.allConfigurations[2].blendedCostPer1M)
    /\ costAnalysisOutput.allConfigurations[1].costEfficiencyScore
          = costAnalysisOutput.allConfigurations[2].costEfficiencyScore
    /\ costAnalysisOutput.leastCostEfficient = costAnalysisOutput.allConfigurations[1]

(***************************************************************************)
(* Properties of the collector: pacing and attempt budget.                 *)
(***************************************************************************)
\* C26: after a batch has completed with a target still unmet, the collector
\* sleeps requestDelay if and only if the cold target is not yet reached;
\* with the cold target reached and only warm samples missing it goes on to
\* the next batch with no delay between the two (the ceiling permitting);
\* with both targets met the loop exits at once, with neither a delay nor a
\* ceiling check.
C26_DelayOnlyForColdStarts ==
    [][pc = "process" =>
          IF /\ Len(coldStartResults') >= targetColdStarts
             /\ Len(warmStartResults') >= targetWarmStarts
          THEN pc' = "exited" /\ exitReason' = "targets"
          ELSE IF Len(coldStartResults') < targetColdStarts
          THEN pc' = "requestDelay"
          ELSE /\ pc' \notin {"requestDelay", "warmupDelay"}
               /\ IF totalRequestsAttempted' > maxRequests
                  THEN pc' = "exited" /\ exitReason' = "ceiling"
                  ELSE pc' = "while"]_vars

\* C28: the attempt budget is overshot by at most one batch: in every
\* reachable state of testFunction totalRequestsAttempted is at most
\* maxRequests + maxConcurrentRequests, i.e. no batch is issued once
\* totalRequestsAttempted > maxRequests.
C28_OvershootAtMostOneBatch ==
    totalRequestsAttempted <= maxRequests + maxConcurrentRequests

====
